---- MODULE Spec2Model ----
(***************************************************************************)
(* Options analytics engine of diamond-warehouse-collector.                *)
(*                                                                         *)
(* The calculators of src/core/calculations.py and                         *)
(* src/core/term_structure.py are functions of in-memory tables.  A table  *)
(* (a pandas DataFrame) is a record [cols, rows]: the set of its column    *)
(* names and the sequence of its rows.  A row is a record; a field whose   *)
(* column is not in cols is not part of the table and is never read.       *)
(*                                                                         *)
(* A float that may be undefined (NaN) is a sequence: NaN is <<>>, a       *)
(* defined integer-valued quantity v is <<v>>, and a defined rational      *)
(* n/d in lowest terms is <<n, d>>.                                        *)
(*   delta     in hundredths       (0.25 is <<25>>, -0.25 is <<-25>>)      *)
(*   gamma     in model units      (<<2>>)                                 *)
(*   iv_pct    in percentage points, an integer; 0 stands for "not > 0"    *)
(*   strike    in price units, an integer                                  *)
(***************************************************************************)
EXTENDS Integers, Sequences, FiniteSets, TLC

VARIABLES
    df_greeks,       \* calculate_net_exposures / calculate_gex_distribution: Greeks table
    df_oi,           \* ... open-interest table
    spot_price,      \* ... spot price
    net_exposures,   \* outcome of calculate_net_exposures
    gex_by_strike,   \* outcome of calculate_gex_distribution
    chain,           \* interpolate_iv_at_delta(_local): the option-chain table
    interp_call,     \* ... the call made on it and its outcome
    ts_greeks,       \* calculate_daily_metrics steps 4-5: Greeks of all expirations
    skew_metrics,    \* outcome of calculate_skew_metrics(ts_greeks)
    ts_metrics,      \* outcome of calculate_term_structure_metrics(ts_greeks)
    df_price,        \* analyze_liquidity: the price table
    liquidity,       \* outcome of analyze_liquidity
    pc_df_price,     \* calculate_pc_ratios: the price table
    pc_df_greeks,    \* ... the Greeks table
    pc_df_oi,        \* ... the open-interest table
    pc_ratios,       \* outcome of calculate_pc_ratios
    pc_gex,          \* outcome of calculate_gex_distribution on the same tables
    df_stock,        \* calculate_realized_volatility: the underlying's price series
    windows,         \* ... the window sizes
    df_hv,           \* outcome of calculate_realized_volatility
    raw_table,       \* normalize_columns: the table as received
    once,            \* normalize_columns(raw_table)
    twice,           \* normalize_columns(once)
    tc_greeks,       \* calculate_term_structure_metrics on a table that may lack columns
    tc_metrics,      \* ... its outcome
    feed_csv,        \* ThetaDataAPI.fetch: the table of the CSV response
    fetched,         \* outcome of fetch
    feed_norm,       \* normalize_columns on the fetched table, as a calculator applies it
    master_file,     \* StorageManager: <symbol>_master_daily.parquet of one symbol
    master_before,   \* ... the file before the latest save_daily_metrics
    saves,           \* ... the records passed to save_daily_metrics, in call order
    hist_file,       \* PriceHistoryManager: a history file of one symbol
    hist_before,     \* ... the file before the latest save
    hist_saves,      \* ... the tables passed to the save method, in call order
    w_master,        \* concurrent workers: the master daily file they share
    w_state,         \* ... the state file they share
    w_proc,          \* ... per worker, the call it makes and its position in it
    w_read,          \* ... per worker, what it read from the file
    drv_master,      \* collection driver: the master daily file of the symbol
    drv_before,      \* ... the file before the latest iteration
    drv_state,       \* ... the symbol's entry of the state file
    drv_days,        \* ... the number of iterations made
    job_log,         \* daily_collection_job: per symbol attempted, in order, what happened
    job_status,      \* ... "running", "completed" or "failed"
    bf_file,         \* S&P 500 backfill: backfill_progress.json
    bf_progress,     \* ... the progress dictionary of the running process
    bf_remaining,    \* ... the symbols the running process has still to take
    bf_pc,           \* ... the position of the process in main
    bf_redone,       \* ... symbols backfilled while the file had them as completed
    bf_runs          \* ... the number of runs started

exposureVars == <<df_greeks, df_oi, spot_price, net_exposures, gex_by_strike>>

skewVars == <<chain, interp_call>>

termVars == <<ts_greeks, skew_metrics, ts_metrics>>

liquidityVars == <<df_price, liquidity>>

pcVars == <<pc_df_price, pc_df_greeks, pc_df_oi, pc_ratios, pc_gex>>

hvVars == <<df_stock, windows, df_hv>>

normVars == <<raw_table, once, twice>>

columnVars == <<tc_greeks, tc_metrics>>

feedVars == <<feed_csv, fetched, feed_norm>>

storageVars == <<master_file, master_before, saves>>

histVars == <<hist_file, hist_before, hist_saves>>

workerVars == <<w_master, w_state, w_proc, w_read>>

driverVars == <<drv_master, drv_before, drv_state, drv_days>>

jobVars == <<job_log, job_status>>

backfillVars == <<bf_file, bf_progress, bf_remaining, bf_pc, bf_redone, bf_runs>>

systemVars ==
    <<feedVars, storageVars, histVars, workerVars, driverVars, jobVars, backfillVars>>

laterVars == <<liquidityVars, pcVars, hvVars, normVars, columnVars, systemVars>>

vars == <<exposureVars, skewVars, termVars, laterVars>>

----------------------------------------------------------------------------
(* Generic helpers *)

NaN == <<>>

notna(x) == x # NaN

NotCalled == [status |-> "not_called"]

Returned(v) == [status |-> "returned", value |-> v]

Raised(e) == [status |-> "raised", error |-> e]

RECURSIVE SeqSum(_)
SeqSum(s) == IF s = <<>> THEN 0 ELSE Head(s) + SeqSum(Tail(s))

\* pandas Series.sum(): undefined entries are skipped, an empty sum is 0
RECURSIVE NanSum(_)
NanSum(s) ==
    IF s = <<>> THEN 0
    ELSE (IF notna(Head(s)) THEN Head(s)[1] ELSE 0) + NanSum(Tail(s))

SeqMap(f(_), s) == [i \in 1..Len(s) |-> f(s[i])]

SetMax(S) == CHOOSE x \in S : \A y \in S : y <= x

SetMin(S) == CHOOSE x \in S : \A y \in S : x <= y

\* all sequences over D of length 0..n
SeqsUpTo(D, n) == UNION {[1..k -> D] : k \in 0..n}

\* DataFrame.sort_values on an integer key.  The default kind ('quicksort') leaves
\* the order of equal keys to the numpy build: ties is "kept" (rows with equal keys
\* stay in row order) or "reversed" (they come out in reverse row order).
TieOrders == {"kept", "reversed"}

SortBy(s, key(_), ties) ==
    LET n == Len(s)
        before(j, i) == IF ties = "kept" THEN j < i ELSE j > i
        rank(i) == Cardinality({j \in 1..n : \/ key(s[j]) < key(s[i])
                                             \/ key(s[j]) = key(s[i]) /\ before(j, i)}) + 1
    IN  [k \in 1..n |-> s[CHOOSE i \in 1..n : rank(i) = k]]

StableSortBy(s, key(_)) == SortBy(s, key, "kept")

Abs(x) == IF x < 0 THEN -x ELSE x

RECURSIVE GCD(_, _)
GCD(a, b) == IF b = 0 THEN a ELSE GCD(b, a % b)

\* the rational n/d (d # 0) in lowest terms with a positive denominator
Frac(n, d) ==
    LET g == GCD(Abs(n), Abs(d))
        sgn == IF d < 0 THEN -1 ELSE 1
    IN  <<(sgn * n) \div g, (sgn * d) \div g>>

FAdd(a, b) == Frac(a[1] * b[2] + b[1] * a[2], a[2] * b[2])

FSub(a, b) == Frac(a[1] * b[2] - b[1] * a[2], a[2] * b[2])

FHalf(a) == Frac(a[1], 2 * a[2])

isfinite(x) == x # NaN

MeanPropagatingNaN(a, b) ==
    IF isfinite(a) /\ isfinite(b) THEN FHalf(FAdd(a, b)) ELSE NaN

\* np.nanmean of two values: the mean of the defined ones, undefined if there is none
nanmean2(a, b) ==
    IF isfinite(a) /\ isfinite(b) THEN FHalf(FAdd(a, b))
    ELSE IF isfinite(a) THEN a
    ELSE IF isfinite(b) THEN b
    ELSE NaN

\* the elements of a set of integers in ascending order
SortedSeqOfSet(S) ==
    [k \in 1..Cardinality(S) |-> CHOOSE x \in S : Cardinality({y \in S : y < x}) = k - 1]

RECURSIVE Flatten(_)
Flatten(ss) == IF ss = <<>> THEN <<>> ELSE Head(ss) \o Flatten(Tail(ss))

----------------------------------------------------------------------------
(* Program constants *)

StrikeThreshold == 10000

MilliDivisor == 1000

ContractMultiplier == 100

IvPercent == 100

Billion == 1000000000

Million == 1000000

----------------------------------------------------------------------------
(* normalize_columns *)

\* the alias table of normalize_columns; column names are held lower-case and stripped
ColumnAlias(c) ==
    CASE c \in {"vol", "size", "daily_volume"} -> "volume"
      [] c \in {"oi", "openinterest"}          -> "open_interest"
      [] c \in {"type", "cp"}                  -> "right"
      [] c \in {"exp", "expiry"}               -> "expiration"
      [] OTHER                                 -> c

\* str.upper().str.strip() on the codes of the model's vocabulary
UpperStrip(v) ==
    CASE v \in {"p", " P ", " p "}     -> "P"
      [] v \in {"c", " C ", " c "}     -> "C"
      [] v \in {"put", " PUT ", "Put"} -> "PUT"
      [] v \in {"call", " CALL ", "Call"} -> "CALL"
      [] v \in {"x", " x ", " X "}    -> "X"
      [] v = "nan"                     -> "NAN"
      [] OTHER                         -> v

NormalizeRight(v) ==
    LET u == UpperStrip(v)
    IN  CASE u = "P" -> "PUT"
          [] u = "C" -> "CALL"
          [] OTHER   -> u

MilliStrikesFromThreshold(cols1, rows) ==
    /\ "strike" \in cols1
    /\ SetMax({rows[i].strike : i \in 1..Len(rows)}) >= StrikeThreshold

\* the test of correction #3: the largest strike of a non-empty table exceeds 10000
MilliStrikes(cols1, rows) ==
    /\ "strike" \in cols1
    /\ SetMax({rows[i].strike : i \in 1..Len(rows)}) > StrikeThreshold

normalize_columns(t) ==
    IF t.rows = <<>> THEN t
    ELSE
      LET cols1 == {ColumnAlias(c) : c \in t.cols}
          addIv == "implied_vol" \in cols1 /\ "iv_pct" \notin cols1
          rescale == MilliStrikes(cols1, t.rows)
          fixRight(r) == IF "right" \in cols1
                         THEN [r EXCEPT !.right = NormalizeRight(@)] ELSE r
          fixIv(r) == IF addIv THEN [iv_pct |-> r.implied_vol * IvPercent] @@ r ELSE r
          fixStrike(r) == IF rescale THEN [r EXCEPT !.strike = @ \div MilliDivisor] ELSE r
      IN  [cols |-> IF addIv THEN cols1 \cup {"iv_pct"} ELSE cols1,
           rows |-> [i \in 1..Len(t.rows) |-> fixStrike(fixIv(fixRight(t.rows[i])))]]

\* DataFrame.merge(on=['strike','right'], how='inner'): for each left row in order,
\* one joined row per matching right row.  The non-key columns of the two tables of
\* the model are disjoint, so no column is suffixed.
merge_inner(l, r) ==
    LET matches(lrow) ==
            LET hit == SelectSeq(r.rows, LAMBDA rr : rr.strike = lrow.strike
                                                     /\ rr.right = lrow.right)
            IN  [k \in 1..Len(hit) |-> lrow @@ hit[k]]
    IN  [cols |-> l.cols \cup r.cols,
         rows |-> Flatten([i \in 1..Len(l.rows) |-> matches(l.rows[i])])]

JoinKeys == {"strike", "right"}

----------------------------------------------------------------------------
(* calculate_net_exposures *)

EmptyDict == [k \in {} |-> 0]

zero_metrics ==
    [net_delta |-> 0, net_gamma |-> 0,
     net_delta_calls |-> 0, net_delta_puts |-> 0,
     net_gamma_calls |-> 0, net_gamma_puts |-> 0,
     total_oi |-> 0, call_oi |-> 0, put_oi |-> 0,
     net_gamma_billions |-> <<0, Billion>>, net_delta_millions |-> <<0, Million>>]

KeptRowsIgnoringDelta(rows) ==
    SelectSeq(rows, LAMBDA r : notna(r.gamma) /\ r.open_interest > 0)

\* line 122: the rows the exposure sums run over
KeptRows(rows) ==
    SelectSeq(rows, LAMBDA r : notna(r.delta) /\ notna(r.gamma) /\ r.open_interest > 0)

calculate_net_exposures(greeks, oi, spot) ==
    LET g == normalize_columns(greeks)
        o == normalize_columns(oi)
    IN
    IF ~(JoinKeys \subseteq g.cols) \/ ~(JoinKeys \subseteq o.cols)
    THEN Returned(EmptyDict)
    ELSE
      LET df == merge_inner(g, o) IN
      IF df.rows = <<>> THEN Returned(zero_metrics)
      ELSE IF ~({"delta", "gamma", "open_interest"} \subseteq df.cols)
      THEN Returned(zero_metrics)
      ELSE
        LET kept  == KeptRows(df.rows)
            calls == SelectSeq(kept, LAMBDA r : r.right = "CALL")
            puts  == SelectSeq(kept, LAMBDA r : r.right = "PUT")
            \* a product with an undefined factor is undefined; sum() skips it
            dexp(r) == IF notna(r.delta)
                       THEN <<r.delta[1] * r.open_interest * ContractMultiplier>>
                       ELSE NaN
            gexp(r) == IF notna(r.gamma)
                       THEN <<r.gamma[1] * r.open_interest * ContractMultiplier * spot>>
                       ELSE NaN
            oiOf(r) == r.open_interest
            ndc == NanSum(SeqMap(dexp, calls))
            ndp == NanSum(SeqMap(dexp, puts))
            ngc == NanSum(SeqMap(gexp, calls))
            ngp == NanSum(SeqMap(gexp, puts))
        IN  Returned(
              [net_delta |-> ndc + ndp, net_gamma |-> ngc - ngp,
               net_delta_calls |-> ndc, net_delta_puts |-> ndp,
               net_gamma_calls |-> ngc, net_gamma_puts |-> ngp,
               total_oi |-> SeqSum(SeqMap(oiOf, kept)),
               call_oi |-> SeqSum(SeqMap(oiOf, calls)),
               put_oi |-> SeqSum(SeqMap(oiOf, puts)),
               net_gamma_billions |-> <<ngc - ngp, Billion>>,
               net_delta_millions |-> <<ndc + ndp, Million>>])

----------------------------------------------------------------------------
(* calculate_gex_distribution *)

EmptyTable == <<>>

\* lines 340-341: per-row gex, negated for PUT rows; undefined when gamma is
RowGex(r, spot) ==
    IF notna(r.gamma)
    THEN <<(IF r.right = "PUT" THEN -1 ELSE 1)
            * r.gamma[1] * r.open_interest * ContractMultiplier * spot>>
    ELSE NaN

\* lines 343-350: groupby('strike') orders the groups by strike ascending;
\* the sums skip undefined entries
GroupByStrike(rows, spot) ==
    LET strikes == SortedSeqOfSet({rows[i].strike : i \in 1..Len(rows)})
        grp(k)  == SelectSeq(rows, LAMBDA r : r.strike = k)
        gexOf(r) == RowGex(r, spot)
        oiOf(r) == r.open_interest
    IN  [i \in 1..Len(strikes) |->
            LET gsum == NanSum(SeqMap(gexOf, grp(strikes[i]))) IN
            [strike |-> strikes[i],
             gex |-> gsum,
             open_interest |-> SeqSum(SeqMap(oiOf, grp(strikes[i]))),
             spot_price |-> spot,
             distance_to_spot |-> strikes[i] - spot,
             gex_billions |-> <<gsum, Billion>>]]

IdxMaxAllTies(t) == {i \in 1..Len(t) : \A j \in 1..Len(t) : t[j].gex <= t[i].gex}

\* Series.idxmax(): the first position that holds the maximum
idxmax(t) == {SetMin({i \in 1..Len(t) : \A j \in 1..Len(t) : t[j].gex <= t[i].gex})}

\* Series.idxmin(): the first position that holds the minimum
idxmin(t) == {SetMin({i \in 1..Len(t) : \A j \in 1..Len(t) : t[i].gex <= t[j].gex})}

\* lines 352-362
FlagWalls(t) ==
    [i \in 1..Len(t) |->
        t[i] @@ [is_call_wall |-> i \in idxmax(t) /\ t[i].gex > 0,
                 is_put_wall  |-> i \in idxmin(t) /\ t[i].gex < 0]]

strikeOf(r) == r.strike

calculate_gex_distribution(greeks, oi, spot) ==
    LET g == normalize_columns(greeks)
        o == normalize_columns(oi)
    IN
    IF ~(JoinKeys \subseteq g.cols) \/ ~(JoinKeys \subseteq o.cols)
    THEN Raised("KeyError")
    ELSE
      LET df == merge_inner(g, o) IN
      IF df.rows = <<>> \/ "gamma" \notin df.cols \/ "open_interest" \notin df.cols
      THEN Returned(EmptyTable)
      ELSE Returned(StableSortBy(FlagWalls(GroupByStrike(df.rows, spot)), strikeOf))

----------------------------------------------------------------------------
(* interpolate_iv_at_delta, interpolate_iv_at_delta_local *)

AbsDelta(r) == Abs(r.delta[1])

NpInterpNext(xs, ys, t) ==
    LET n == Len(xs)
        j == SetMin({i \in 1..n : xs[i] >= t})
    IN  Frac(ys[j], 1)

\* numpy.interp on ascending xs at a point t with xs[1] <= t <= xs[n]: j is the
\* last position with xs[j] <= t; an exact hit or the last sample returns ys[j]

np_interp(xs, ys, t) ==
    LET n == Len(xs)
        j == SetMax({i \in 1..n : xs[i] <= t})
    IN  IF j = n THEN Frac(ys[n], 1)
        ELSE IF xs[j] = t THEN Frac(ys[j], 1)
        ELSE Frac(ys[j] * (xs[j + 1] - xs[j]) + (ys[j + 1] - ys[j]) * (t - xs[j]),
                  xs[j + 1] - xs[j])

\* scipy.interpolate.interp1d(xs, ys, kind='linear', bounds_error=True)(t): linear
\* interpolation takes one sample or more; a point outside [xs[1], xs[n]] raises
interp1d(xs, ys, t) ==
    IF Len(xs) < 1 THEN Raised("ValueError")
    ELSE IF t < xs[1] \/ t > xs[Len(xs)] THEN Raised("ValueError")
    ELSE Returned(np_interp(xs, ys, t))

ivOf(r) == r.iv_pct

\* calculations.py lines 225-239
InterpolateFiltered(df_filtered, target_delta, ties) ==
    LET sorted == SortBy(df_filtered, AbsDelta, ties)
        xs == SeqMap(AbsDelta, sorted)
        ys == SeqMap(ivOf, sorted)
        min_d == SetMin({xs[i] : i \in 1..Len(xs)})
        max_d == SetMax({xs[i] : i \in 1..Len(xs)})
    IN  IF min_d > target_delta \/ max_d < target_delta THEN NaN
        ELSE LET f == interp1d(xs, ys, target_delta)
             IN  IF f.status = "raised" THEN NaN ELSE f.value

TargetType(option_type) == IF option_type \in {"PUT", "P"} THEN "PUT" ELSE "CALL"

\* calculations.py lines 213-220
FilterValid(df, target_type) ==
    LET df_filtered == SelectSeq(df.rows, LAMBDA r : /\ r.right = target_type
                                                     /\ r.iv_pct > 0
                                                     /\ notna(r.delta))
    IN  IF "volume" \in df.cols
        THEN SelectSeq(df_filtered, LAMBDA r : r.volume > 0)
        ELSE df_filtered

interpolate_iv_at_delta(df0, target_delta, option_type, ties) ==
    LET df == normalize_columns(df0) IN
    IF ~({"right", "iv_pct", "delta"} \subseteq df.cols) THEN NaN
    ELSE
      LET df_filtered == FilterValid(df, TargetType(option_type)) IN
      IF df_filtered = <<>> THEN NaN
      ELSE InterpolateFiltered(df_filtered, target_delta, ties)

\* term_structure.py lines 153-181; df is a plain sequence of rows
interpolate_iv_at_delta_local(df, target_delta, option_type, ties) ==
    LET df_filtered == SelectSeq(df, LAMBDA r : r.right = option_type) IN
    IF df_filtered = <<>> THEN NaN
    ELSE
      LET sorted == SortBy(df_filtered, AbsDelta, ties)
          xs == SeqMap(AbsDelta, sorted)
          ys == SeqMap(ivOf, sorted)
          min_d == SetMin({xs[i] : i \in 1..Len(xs)})
          max_d == SetMax({xs[i] : i \in 1..Len(xs)})
      IN  IF min_d > target_delta \/ max_d < target_delta THEN NaN
          ELSE LET f == interp1d(xs, ys, target_delta)
               IN  IF f.status = "raised" THEN NaN ELSE f.value

----------------------------------------------------------------------------
(* calculate_skew_metrics *)

DeltaAtm == 50

Delta25 == 25

Delta10 == 10

NanMetrics ==
    [iv_atm |-> NaN, iv_25d_put |-> NaN, iv_25d_call |-> NaN,
     rr25 |-> NaN, iv_10d_put |-> NaN, bf25 |-> NaN]

RiskReversalSwapped(iv_25d_put, iv_25d_call) ==
    IF isfinite(iv_25d_put) /\ isfinite(iv_25d_call)
    THEN FSub(iv_25d_call, iv_25d_put) ELSE NaN

\* calculations.py lines 262-263, term_structure.py lines 141-144
RiskReversal(iv_25d_put, iv_25d_call) ==
    IF isfinite(iv_25d_put) /\ isfinite(iv_25d_call)
    THEN FSub(iv_25d_put, iv_25d_call) ELSE NaN

\* calculations.py lines 267-268
Butterfly(iv_25d_put, iv_25d_call, iv_atm) ==
    IF isfinite(iv_25d_put) /\ isfinite(iv_atm) /\ isfinite(iv_25d_call)
    THEN FSub(FHalf(FAdd(iv_25d_put, iv_25d_call)), iv_atm) ELSE NaN

calculate_skew_metrics(df0, ties) ==
    LET df == normalize_columns(df0) IN
    IF df.rows = <<>> THEN NanMetrics
    ELSE
      LET iv_atm_call == interpolate_iv_at_delta(df, DeltaAtm, "CALL", ties)
          iv_atm_put  == interpolate_iv_at_delta(df, DeltaAtm, "PUT", ties)
          iv_atm      == nanmean2(iv_atm_call, iv_atm_put)
          iv_25d_put  == interpolate_iv_at_delta(df, Delta25, "PUT", ties)
          iv_25d_call == interpolate_iv_at_delta(df, Delta25, "CALL", ties)
      IN  [iv_atm |-> iv_atm,
           iv_25d_put |-> iv_25d_put,
           iv_25d_call |-> iv_25d_call,
           rr25 |-> RiskReversal(iv_25d_put, iv_25d_call),
           iv_10d_put |-> interpolate_iv_at_delta(df, Delta10, "PUT", ties),
           bf25 |-> Butterfly(iv_25d_put, iv_25d_call, iv_atm)]

----------------------------------------------------------------------------
(* term_structure.py *)

None == <<>>

TargetDtes == {0, 7, 30, 60}

\* calculate_rr25_by_dte lines 103-108
Tolerance(target_dte) ==
    IF target_dte = 0 THEN 1 ELSE IF target_dte = 7 THEN 2 ELSE 5

InWindow(dte, target_dte, tolerance) ==
    dte >= target_dte - tolerance /\ dte <= target_dte + tolerance

NearestIndexFirstInWindow(rows, target_dte, tolerance) ==
    SetMin({i \in 1..Len(rows) : InWindow(rows[i].dte, target_dte, tolerance)})

\* lines 35-48: idxmin of dte_diff over the rows in the window, the first row that
\* holds the minimum
NearestIndex(rows, target_dte, tolerance) ==
    LET cand == {i \in 1..Len(rows) : InWindow(rows[i].dte, target_dte, tolerance)}
        dte_diff(i) == Abs(rows[i].dte - target_dte)
    IN  SetMin({i \in cand : \A j \in cand : dte_diff(i) <= dte_diff(j)})

FindNearestIgnoringWindow(df_g, target_dte, tolerance) ==
    IF df_g.rows = <<>> \/ "dte" \notin df_g.cols THEN <<>>
    ELSE
      LET dte_diff(i) == Abs(df_g.rows[i].dte - target_dte)
          closest == SetMin({i \in 1..Len(df_g.rows) :
                                \A j \in 1..Len(df_g.rows) : dte_diff(i) <= dte_diff(j)})
      IN  SelectSeq(df_g.rows, LAMBDA r : r.expiration = df_g.rows[closest].expiration)

\* returns the rows of the selected expiration, <<>> for the empty DataFrame
find_nearest_expiration(df_g, target_dte, tolerance) ==
    IF df_g.rows = <<>> \/ "dte" \notin df_g.cols THEN <<>>
    ELSE IF \A i \in 1..Len(df_g.rows) : ~InWindow(df_g.rows[i].dte, target_dte, tolerance)
    THEN <<>>
    ELSE
      LET closest_exp == df_g.rows[NearestIndex(df_g.rows, target_dte, tolerance)].expiration
      IN  SelectSeq(df_g.rows, LAMBDA r : r.expiration = closest_exp)

UndefinedBucket == [rr25 |-> NaN, iv_atm |-> NaN, actual_dte |-> None]

\* lines 87-91: a missing dte column is computed into the caller's table
WithDte(df_g) ==
    IF df_g.rows # <<>> /\ "dte" \notin df_g.cols /\ {"expiration", "date"} \subseteq df_g.cols
    THEN [cols |-> df_g.cols \cup {"dte"},
          rows |-> [i \in 1..Len(df_g.rows) |->
                      [df_g.rows[i] EXCEPT !.dte = df_g.rows[i].expiration - df_g.rows[i].date]]]
    ELSE df_g

LiquidityFilterNoBid(df_dte) ==
    SelectSeq(df_dte, LAMBDA r : r.iv_pct > 0 /\ notna(r.delta) /\ r.volume > 0)

\* lines 124-129
LiquidityFilter(df_dte) ==
    SelectSeq(df_dte, LAMBDA r : /\ r.iv_pct > 0
                                 /\ notna(r.delta)
                                 /\ r.volume > 0
                                 /\ r.bid > 0)

\* lines 101-149: one pass of the loop
BucketMetrics(df_g, target_dte, ties) ==
    LET df_dte == find_nearest_expiration(df_g, target_dte, Tolerance(target_dte)) IN
    IF df_dte = <<>> THEN [rr25 |-> NaN, iv_atm |-> NaN, actual_dte |-> None]
    ELSE
      LET actual_dte == <<df_dte[1].dte>>
          df_clean == LiquidityFilter(df_dte)
      IN  IF df_clean = <<>>
          THEN [rr25 |-> NaN, iv_atm |-> NaN, actual_dte |-> actual_dte]
          ELSE
            LET iv_25d_put  == interpolate_iv_at_delta_local(df_clean, Delta25, "PUT", ties)
                iv_25d_call == interpolate_iv_at_delta_local(df_clean, Delta25, "CALL", ties)
                iv_atm_call == interpolate_iv_at_delta_local(df_clean, DeltaAtm, "CALL", ties)
                iv_atm_put  == interpolate_iv_at_delta_local(df_clean, DeltaAtm, "PUT", ties)
            IN  [rr25 |-> RiskReversal(iv_25d_put, iv_25d_call),
                 iv_atm |-> nanmean2(iv_atm_call, iv_atm_put),
                 actual_dte |-> actual_dte]

\* the dict of calculate_rr25_by_dte, held per bucket: bucket d carries the keys
\* rr25_<d>dte, iv_atm_<d>dte and actual_dte_<d>
calculate_rr25_by_dte(df_greeks0, target_dtes, ties) ==
    IF df_greeks0.rows = <<>> THEN [d \in target_dtes |-> UndefinedBucket]
    ELSE IF "dte" \notin df_greeks0.cols
            /\ ~({"expiration", "date"} \subseteq df_greeks0.cols)
    THEN [d \in target_dtes |-> UndefinedBucket]
    ELSE [d \in target_dtes |-> BucketMetrics(WithDte(df_greeks0), d, ties)]

\* lines 213-228
calculate_term_structure_metrics(df_g, ties) ==
    LET metrics == calculate_rr25_by_dte(df_g, TargetDtes, ties) IN
    [buckets |-> metrics,
     rr25_term_spread |->
        IF isfinite(metrics[60].rr25) /\ isfinite(metrics[7].rr25)
        THEN FSub(metrics[60].rr25, metrics[7].rr25) ELSE NaN,
     iv_term_spread |->
        IF isfinite(metrics[60].iv_atm) /\ isfinite(metrics[7].iv_atm)
        THEN FSub(metrics[60].iv_atm, metrics[7].iv_atm) ELSE NaN]

----------------------------------------------------------------------------
(* Inputs of the exposure calculators *)

MaxGreeksRows == 2

MaxOiRows == 2

Strikes == {100, 105}

Rights == {"CALL", "PUT"}

\* (delta, gamma) of a Greeks row: both defined, delta undefined, gamma undefined
DeltaGamma == {<< <<30>>, <<2>> >>, << NaN, <<3>> >>, << <<-40>>, NaN >>}

SpotPrices == {3}

GreeksColumns == {"strike", "right", "delta", "gamma"}

OiColumns == {"strike", "right", "open_interest"}

BothDefined == << <<30>>, <<2>> >>

\* every (delta, gamma) at strike 100; at strike 105 the fully defined rows and a
\* CALL without delta
GreeksRows ==
    {[strike |-> k, right |-> r, delta |-> dg[1], gamma |-> dg[2]] :
        k \in {100}, r \in Rights, dg \in DeltaGamma}
    \cup {[strike |-> 105, right |-> r, delta |-> BothDefined[1], gamma |-> BothDefined[2]] :
            r \in Rights}
    \cup {[strike |-> 105, right |-> "CALL", delta |-> NaN, gamma |-> <<3>>]}

\* open interest 2 at every (strike, right); no open interest at two of them
OiRows ==
    [strike : Strikes, right : Rights, open_interest : {2}]
    \cup {[strike |-> 100, right |-> "CALL", open_interest |-> 0],
          [strike |-> 105, right |-> "PUT", open_interest |-> 0]}

SampleGreeksRow == [strike |-> 100, right |-> "CALL", delta |-> <<30>>, gamma |-> <<2>>]

SampleOiRow == [strike |-> 100, right |-> "CALL", open_interest |-> 2]

\* pd.DataFrame(): no columns, no rows
NoColumnsTable == [cols |-> {}, rows |-> <<>>]

\* tables with one column missing, empty or with one row
Deficient(columns, sample) ==
    {[cols |-> columns \ {c}, rows |-> rs] : c \in columns, rs \in {<<>>, <<sample>>}}

GreeksTables ==
    {[cols |-> GreeksColumns, rows |-> rs] : rs \in SeqsUpTo(GreeksRows, MaxGreeksRows)}
    \cup Deficient(GreeksColumns, SampleGreeksRow) \cup {NoColumnsTable}

OiTables ==
    {[cols |-> OiColumns, rows |-> rs] : rs \in SeqsUpTo(OiRows, MaxOiRows)}
    \cup Deficient(OiColumns, SampleOiRow) \cup {NoColumnsTable}

\* the variables of the calculators a specification does not exercise
IdleExposure ==
    /\ df_greeks = NoColumnsTable
    /\ df_oi = NoColumnsTable
    /\ spot_price = 0
    /\ net_exposures = NotCalled
    /\ gex_by_strike = NotCalled

IdleSkew == chain = NoColumnsTable /\ interp_call = NotCalled

IdleTerm == ts_greeks = NoColumnsTable /\ skew_metrics = NotCalled /\ ts_metrics = NotCalled

IdleLiquidity == df_price = NoColumnsTable /\ liquidity = NotCalled

IdlePc ==
    /\ pc_df_price = NoColumnsTable
    /\ pc_df_greeks = NoColumnsTable
    /\ pc_df_oi = NoColumnsTable
    /\ pc_ratios = NotCalled
    /\ pc_gex = NotCalled

IdleHv == df_stock = NoColumnsTable /\ windows = {} /\ df_hv = NotCalled

IdleNorm == raw_table = NoColumnsTable /\ once = NotCalled /\ twice = NotCalled

IdleColumns == tc_greeks = NoColumnsTable /\ tc_metrics = NotCalled

IdleFeed == feed_csv = NoColumnsTable /\ fetched = NotCalled /\ feed_norm = NotCalled

\* a file that does not exist
NoFile == [exists |-> FALSE, rows |-> <<>>]

IdleStorage == master_file = NoFile /\ master_before = NoFile /\ saves = <<>>

IdleHist == hist_file = NoFile /\ hist_before = NoFile /\ hist_saves = <<>>

IdleWorkers == w_master = NoFile /\ w_state = NoFile /\ w_proc = <<>> /\ w_read = <<>>

IdleDriver ==
    drv_master = NoFile /\ drv_before = NoFile /\ drv_state = <<>> /\ drv_days = 0

IdleJob == job_log = <<>> /\ job_status = "idle"

\* the dictionary load_progress returns without a file; current_symbol None is 0
FreshProgress == [completed_symbols |-> <<>>, current_symbol |-> 0, failed |-> {}]

AbsentFile == [kind |-> "absent"]

IdleBackfill ==
    /\ bf_file = AbsentFile
    /\ bf_progress = FreshProgress
    /\ bf_remaining = <<>>
    /\ bf_pc = "idle"
    /\ bf_redone = {}
    /\ bf_runs = 0

\* every group of systemVars but g is idle
IdleSystemBut(g) ==
    /\ (g = "feed" \/ IdleFeed)
    /\ (g = "storage" \/ IdleStorage)
    /\ (g = "hist" \/ IdleHist)
    /\ (g = "workers" \/ IdleWorkers)
    /\ (g = "driver" \/ IdleDriver)
    /\ (g = "job" \/ IdleJob)
    /\ (g = "backfill" \/ IdleBackfill)

\* every group of systemVars but g is unchanged
SystemUnchangedBut(g) ==
    /\ IF g = "feed" THEN TRUE ELSE UNCHANGED feedVars
    /\ IF g = "storage" THEN TRUE ELSE UNCHANGED storageVars
    /\ IF g = "hist" THEN TRUE ELSE UNCHANGED histVars
    /\ IF g = "workers" THEN TRUE ELSE UNCHANGED workerVars
    /\ IF g = "driver" THEN TRUE ELSE UNCHANGED driverVars
    /\ IF g = "job" THEN TRUE ELSE UNCHANGED jobVars
    /\ IF g = "backfill" THEN TRUE ELSE UNCHANGED backfillVars

IdleSystem == IdleSystemBut("none")

IdleLater == IdleLiquidity /\ IdlePc /\ IdleHv /\ IdleNorm /\ IdleColumns /\ IdleSystem

InitExposure ==
    /\ df_greeks \in GreeksTables
    /\ df_oi \in OiTables
    /\ spot_price \in SpotPrices
    /\ net_exposures = NotCalled
    /\ gex_by_strike = NotCalled
    /\ IdleSkew
    /\ IdleTerm
    /\ IdleLater

CallNetExposures ==
    /\ net_exposures = NotCalled
    /\ net_exposures' = calculate_net_exposures(df_greeks, df_oi, spot_price)
    /\ UNCHANGED <<df_greeks, df_oi, spot_price, gex_by_strike, skewVars, termVars, laterVars>>

CallGexDistribution ==
    /\ gex_by_strike = NotCalled
    /\ gex_by_strike' = calculate_gex_distribution(df_greeks, df_oi, spot_price)
    /\ UNCHANGED <<df_greeks, df_oi, spot_price, net_exposures, skewVars, termVars, laterVars>>

NextExposure == CallNetExposures \/ CallGexDistribution

SpecExposure == InitExposure /\ [][NextExposure]_vars

----------------------------------------------------------------------------
(* Inputs and calls of the interpolation utility *)

MaxChainRows == 3

ChainColumns == {"right", "iv_pct", "delta", "volume"}

\* <<absolute delta, iv_pct, volume>> of a chain row
ChainQuotes ==
    {<< <<10>>, 20, 5 >>, << <<25>>, 18, 5 >>, << <<50>>, 15, 5 >>,
     << <<25>>, 21, 5 >>,      \* a second sample at the same absolute delta
     << <<10>>, 20, 0 >>,      \* no volume
     << <<25>>, 0, 5 >>,       \* iv not above 0
     << NaN, 18, 5 >>}         \* delta undefined

\* a PUT carries a negative delta, a CALL a positive one
SignedDelta(right, d) == IF d = NaN THEN NaN ELSE IF right = "PUT" THEN <<-d[1]>> ELSE d

ChainRows ==
    {[right |-> r, delta |-> SignedDelta(r, q[1]), iv_pct |-> q[2], volume |-> q[3]] :
        r \in Rights, q \in ChainQuotes}

SampleChainRow == [right |-> "PUT", delta |-> <<-25>>, iv_pct |-> 18, volume |-> 5]

ChainTables ==
    {[cols |-> c, rows |-> rs] :
        c \in {ChainColumns, ChainColumns \ {"volume"}},
        rs \in SeqsUpTo(ChainRows, MaxChainRows)}
    \cup Deficient(ChainColumns \ {"volume"}, SampleChainRow)

InterpTargets == {Delta25, DeltaAtm}

InitSkew ==
    /\ chain \in ChainTables
    /\ interp_call = NotCalled
    /\ IdleExposure
    /\ IdleTerm
    /\ IdleLater

CallInterpolate ==
    /\ interp_call = NotCalled
    /\ \E t \in InterpTargets, ty \in Rights, ties \in TieOrders :
          interp_call' = [fn |-> "interpolate_iv_at_delta",
                          target_delta |-> t, option_type |-> ty,
                          result |-> interpolate_iv_at_delta(chain, t, ty, ties)]
    /\ UNCHANGED <<chain, exposureVars, termVars, laterVars>>

\* the rows calculate_rr25_by_dte hands to interpolate_iv_at_delta_local have passed
\* its liquidity filter
PassedLiquidity(t) ==
    /\ ChainColumns \subseteq t.cols
    /\ t.rows # <<>>
    /\ \A i \in 1..Len(t.rows) :
          t.rows[i].iv_pct > 0 /\ notna(t.rows[i].delta) /\ t.rows[i].volume > 0

CallInterpolateLocal ==
    /\ interp_call = NotCalled
    /\ PassedLiquidity(chain)
    /\ \E t \in InterpTargets, ty \in Rights, ties \in TieOrders :
          interp_call' = [fn |-> "interpolate_iv_at_delta_local",
                          target_delta |-> t, option_type |-> ty,
                          result |-> interpolate_iv_at_delta_local(chain.rows, t, ty, ties)]
    /\ UNCHANGED <<chain, exposureVars, termVars, laterVars>>

NextSkew == CallInterpolate \/ CallInterpolateLocal

SpecSkew == InitSkew /\ [][NextSkew]_vars

----------------------------------------------------------------------------
(* Inputs and calls of the skew engine and the term structure engine *)

MaxTsRows == 3

TsColumns == {"expiration", "date", "dte", "right", "delta", "iv_pct", "volume", "bid"}

\* the observation date; an expiration is held as its day number from that date
ObservationDate == 0

\* <<expiration, right, absolute delta, iv_pct, volume, bid>>
TsQuotes ==
    {<<8, "PUT", 25, 22, 5, 1>>, <<8, "PUT", 10, 26, 5, 1>>, <<8, "PUT", 50, 19, 5, 1>>,
     <<8, "PUT", 25, 30, 5, 0>>,                               \* no bid
     <<8, "CALL", 25, 17, 5, 1>>, <<8, "CALL", 50, 18, 5, 1>>,
     <<9, "PUT", 25, 23, 5, 1>>,
     <<33, "PUT", 25, 21, 5, 1>>,
     <<1, "PUT", 50, 40, 5, 1>>,
     <<58, "PUT", 25, 20, 5, 1>>}

\* collect_all_expirations_data lines 124-126: dte = expiration - date
TsRow(q) ==
    [expiration |-> q[1], date |-> ObservationDate, dte |-> q[1] - ObservationDate,
     right |-> q[2], delta |-> SignedDelta(q[2], <<q[3]>>),
     iv_pct |-> q[4], volume |-> q[5], bid |-> q[6]]

TsRows == {TsRow(q) : q \in TsQuotes}

TsTables ==
    {[cols |-> TsColumns, rows |-> rs] : rs \in SeqsUpTo(TsRows, MaxTsRows)}
    \cup {[cols |-> TsColumns \ {"dte"}, rows |-> rs] : rs \in SeqsUpTo(TsRows, 1)}

InitTerm ==
    /\ ts_greeks \in TsTables
    /\ skew_metrics = NotCalled
    /\ ts_metrics = NotCalled
    /\ IdleExposure
    /\ IdleSkew
    /\ IdleLater

\* calculate_daily_metrics step 4
CallSkewMetrics ==
    /\ skew_metrics = NotCalled
    /\ \E ties \in TieOrders :
          skew_metrics' = [status |-> "returned", ties |-> ties,
                           value |-> calculate_skew_metrics(ts_greeks, ties)]
    /\ UNCHANGED <<ts_greeks, ts_metrics, exposureVars, skewVars, laterVars>>

\* calculate_daily_metrics step 5; a missing dte column is written into the table
CallTermStructure ==
    /\ ts_metrics = NotCalled
    /\ \E ties \in TieOrders :
          ts_metrics' = [status |-> "returned", ties |-> ties,
                         value |-> calculate_term_structure_metrics(ts_greeks, ties)]
    /\ ts_greeks' = WithDte(ts_greeks)
    /\ UNCHANGED <<skew_metrics, exposureVars, skewVars, laterVars>>

NextTerm == CallSkewMetrics \/ CallTermStructure

SpecTerm == InitTerm /\ [][NextTerm]_vars

----------------------------------------------------------------------------
(* analyze_liquidity.  Prices (bid, ask, close) are integers in price units,   *)
(* computed floats are rationals <<n, d>> in lowest terms.                      *)

FZero == <<0, 1>>

FLess(a, b) == a[1] * b[2] < b[1] * a[2]

FMin(a, b) == IF FLess(b, a) THEN b ELSE a

RECURSIVE FSum(_)
FSum(fs) == IF fs = <<>> THEN FZero ELSE FAdd(Head(fs), FSum(Tail(fs)))

\* Series.mean() of a non-empty series
FMean(fs) == Frac(FSum(fs)[1], FSum(fs)[2] * Len(fs))

\* the values in ascending order
FSorted(fs) ==
    LET n == Len(fs)
        rank(i) == Cardinality({j \in 1..n : FLess(fs[j], fs[i]) \/ (fs[j] = fs[i] /\ j < i)}) + 1
    IN  [k \in 1..n |-> fs[CHOOSE i \in 1..n : rank(i) = k]]

\* Series.median() of a non-empty series
FMedian(fs) ==
    LET srt == FSorted(fs)
        n == Len(fs)
    IN  IF n % 2 = 1 THEN srt[(n + 1) \div 2]
        ELSE FHalf(FAdd(srt[n \div 2], srt[n \div 2 + 1]))

\* Series.max() of a non-empty series
FMaxOf(fs) == FSorted(fs)[Len(fs)]

ArtifactSpreadPct == 100

IlliquidSpreadPct == 10

SpreadDivisor == 5

HalfWeight == 50

StressCap == 100

HasQuoteColumns(df) == {"ask", "bid", "close"} \subseteq df.cols

\* lines 376-378 and 381: 0 where close is not positive or a quote column is missing
SpreadPct(df, r) ==
    IF HasQuoteColumns(df) /\ r.close > 0
    THEN Frac((r.ask - r.bid) * 100, r.close)
    ELSE FZero

\* lines 397-401
StressScore(avg_spread_pct, illiquid_contracts, n) ==
    FMin(FAdd(Frac(avg_spread_pct[1] * HalfWeight, avg_spread_pct[2] * SpreadDivisor),
              Frac(illiquid_contracts * HalfWeight, n)),
         <<StressCap, 1>>)

analyze_liquidity(df_price0) ==
    LET df0 == normalize_columns(df_price0) IN
    IF df0.rows = <<>> THEN EmptyDict
    ELSE
      LET withSpread == [i \in 1..Len(df0.rows) |->
                            [spread_pct |-> SpreadPct(df0, df0.rows[i]),
                             volume |-> IF "volume" \in df0.cols
                                        THEN df0.rows[i].volume ELSE 0]]
          df == IF HasQuoteColumns(df0)
                THEN SelectSeq(withSpread,
                               LAMBDA r : FLess(r.spread_pct, <<ArtifactSpreadPct, 1>>))
                ELSE withSpread
          n == Len(df)
          spreads == [i \in 1..n |-> df[i].spread_pct]
          total_volume == SeqSum([i \in 1..n |-> df[i].volume])
          avg_spread_pct == IF n > 0 THEN FMean(spreads) ELSE FZero
          illiquid == Cardinality({i \in 1..n :
                                      FLess(<<IlliquidSpreadPct, 1>>, df[i].spread_pct)})
      IN  [avg_spread_pct |-> avg_spread_pct,
           median_spread_pct |-> IF n > 0 THEN FMedian(spreads) ELSE FZero,
           max_spread_pct |-> IF n > 0 THEN FMaxOf(spreads) ELSE FZero,
           total_volume |-> total_volume,
           avg_volume |-> IF n > 0 THEN Frac(total_volume, n) ELSE FZero,
           illiquid_contracts |-> illiquid,
           zero_volume_contracts |-> Cardinality({i \in 1..n : df[i].volume = 0}),
           liquidity_stress_index |->
               IF n > 0 THEN StressScore(avg_spread_pct, illiquid, n) ELSE FZero]

MaxPriceRows == 3

PriceColumns == {"bid", "ask", "close", "volume"}

\* <<bid, ask, close, volume>>: a 10% spread, a 20% spread without volume, a 90%
\* spread, a 200% spread (an artifact), a crossed quote, a zero close
PriceQuotes ==
    {<<10, 11, 10, 5>>, <<10, 12, 10, 0>>, <<10, 19, 10, 5>>, <<10, 30, 10, 5>>,
     <<12, 10, 10, 5>>, <<10, 11, 0, 5>>}

PriceRows == {[bid |-> q[1], ask |-> q[2], close |-> q[3], volume |-> q[4]] : q \in PriceQuotes}

PriceTables ==
    {[cols |-> PriceColumns \ drop, rows |-> rs] :
        drop \in {{}, {"bid"}, {"close"}, {"volume"}},
        rs \in SeqsUpTo(PriceRows, MaxPriceRows)}
    \cup {NoColumnsTable}

InitLiquidity ==
    /\ df_price \in PriceTables
    /\ liquidity = NotCalled
    /\ IdleExposure /\ IdleSkew /\ IdleTerm
    /\ IdlePc /\ IdleHv /\ IdleNorm /\ IdleColumns /\ IdleSystem

\* calculate_daily_metrics step 8
CallAnalyzeLiquidity ==
    /\ liquidity = NotCalled
    /\ liquidity' = Returned(analyze_liquidity(df_price))
    /\ UNCHANGED <<df_price, exposureVars, skewVars, termVars,
                   pcVars, hvVars, normVars, columnVars, systemVars>>

NextLiquidity == CallAnalyzeLiquidity

SpecLiquidity == InitLiquidity /\ [][NextLiquidity]_vars

----------------------------------------------------------------------------
(* calculate_pc_ratios *)

\* line 286, DataFrame.merge(how='left'): each price row once per Greeks row with
\* its (strike, right), or once with the Greeks columns undefined when there is
\* none.  The non-key columns of the tables of the model are disjoint.
LeftJoinGreeks(l, r) ==
    LET matches(lrow) ==
            LET hit == SelectSeq(r.rows, LAMBDA rr : rr.strike = lrow.strike
                                                     /\ rr.right = lrow.right)
            IN  IF hit = <<>> THEN <<lrow @@ [delta |-> NaN, gamma |-> NaN]>>
                ELSE [k \in 1..Len(hit) |->
                        lrow @@ [delta |-> hit[k].delta, gamma |-> hit[k].gamma]]
    IN  [cols |-> l.cols \cup r.cols,
         rows |-> Flatten([i \in 1..Len(l.rows) |-> matches(l.rows[i])])]

\* line 289: the same with the open-interest table; open_interest becomes a float
\* column, undefined where no open-interest row matches
LeftJoinOi(l, r) ==
    LET matches(lrow) ==
            LET hit == SelectSeq(r.rows, LAMBDA rr : rr.strike = lrow.strike
                                                     /\ rr.right = lrow.right)
            IN  IF hit = <<>> THEN <<lrow @@ [open_interest |-> NaN]>>
                ELSE [k \in 1..Len(hit) |->
                        lrow @@ [open_interest |-> <<hit[k].open_interest>>]]
    IN  [cols |-> l.cols \cup (r.cols \ {"date"}),
         rows |-> Flatten([i \in 1..Len(l.rows) |-> matches(l.rows[i])])]

\* lines 283-284
NeutralRatios == [pc_volume |-> FZero, pc_oi |-> FZero, sentiment |-> "NEUTRAL"]

BearishAbove == <<3, 2>>

BullishBelow == <<7, 10>>

\* lines 317-323
Sentiment(pc_vol) ==
    IF FLess(BearishAbove, pc_vol) THEN "BEARISH"
    ELSE IF FLess(pc_vol, BullishBelow) THEN "BULLISH"
    ELSE "NEUTRAL"

\* max(denominator, 1)
Floor1(x) == IF x > 1 THEN x ELSE 1

\* safe_column_sum on an integer column
SafeVolumeSum(cols, rows) ==
    IF "volume" \in cols THEN SeqSum([i \in 1..Len(rows) |-> rows[i].volume]) ELSE 0

\* safe_column_sum on the float column open_interest
SafeOiSum(cols, rows) ==
    IF "open_interest" \in cols
    THEN NanSum([i \in 1..Len(rows) |-> rows[i].open_interest]) ELSE 0

\* lines 308-309
PremiumSum(rows) ==
    SeqSum([i \in 1..Len(rows) |-> rows[i].close * rows[i].volume * ContractMultiplier])

\* lines 313-314, in hundredths (deltas are in hundredths, so 1 is DeltaScale)
AbsDeltaOiSum(rows) ==
    NanSum([i \in 1..Len(rows) |->
               IF notna(rows[i].delta) /\ notna(rows[i].open_interest)
               THEN <<Abs(rows[i].delta[1]) * rows[i].open_interest[1]>> ELSE NaN])

DeltaScale == 100

calculate_pc_ratios(df_price0, df_greeks0, df_oi0) ==
    LET price == normalize_columns(df_price0)
        greeks == normalize_columns(df_greeks0)
        oi == normalize_columns(df_oi0)
    IN
    IF price.rows = <<>> THEN Returned(NeutralRatios)
    ELSE IF ~(JoinKeys \subseteq price.cols) \/ ~(JoinKeys \subseteq greeks.cols)
    THEN Raised("KeyError")
    ELSE
      LET df1 == LeftJoinGreeks(price, greeks)
          df == IF oi.rows # <<>> /\ JoinKeys \subseteq oi.cols
                THEN LeftJoinOi(df1, oi) ELSE df1
      IN
      IF df.rows = <<>> THEN Returned(EmptyDict)
      ELSE
        LET puts == SelectSeq(df.rows, LAMBDA r : r.right = "PUT")
            calls == SelectSeq(df.rows, LAMBDA r : r.right = "CALL")
            pc_volume == Frac(SafeVolumeSum(df.cols, puts),
                              Floor1(SafeVolumeSum(df.cols, calls)))
            pc_oi == Frac(SafeOiSum(df.cols, puts), Floor1(SafeOiSum(df.cols, calls)))
            premium == IF {"close", "volume"} \subseteq df.cols
                       THEN [pc_premium |-> Frac(PremiumSum(puts), Floor1(PremiumSum(calls)))]
                       ELSE EmptyDict
            delta == IF {"delta", "open_interest"} \subseteq df.cols
                     THEN [pc_delta |-> Frac(AbsDeltaOiSum(puts),
                                             IF AbsDeltaOiSum(calls) > DeltaScale
                                             THEN AbsDeltaOiSum(calls) ELSE DeltaScale)]
                     ELSE EmptyDict
        IN  Returned([pc_volume |-> pc_volume, pc_oi |-> pc_oi,
                      sentiment |-> Sentiment(pc_volume)] @@ premium @@ delta)

MaxPcPriceRows == 2

MaxPcJoinRows == 2

PcPriceColumns == {"strike", "right", "volume", "close"}

\* <<strike, right, volume, close>>: put/call volume ratios of exactly 1.5 (15/10)
\* and 0.7 (7/10), above 1.5 (16/10), and calls without volume
PcPriceQuotes ==
    {<<100, "PUT", 15, 2>>, <<100, "PUT", 7, 2>>, <<105, "PUT", 16, 2>>,
     <<100, "CALL", 10, 3>>, <<105, "CALL", 0, 3>>}

PcPriceRows ==
    {[strike |-> q[1], right |-> q[2], volume |-> q[3], close |-> q[4]] : q \in PcPriceQuotes}

SamplePriceRow == [strike |-> 100, right |-> "PUT", volume |-> 15, close |-> 2]

PcPriceTables ==
    {[cols |-> PcPriceColumns, rows |-> rs] : rs \in SeqsUpTo(PcPriceRows, MaxPcPriceRows)}
    \cup {[cols |-> PcPriceColumns \ {c}, rows |-> <<SamplePriceRow>>] : c \in {"strike", "volume"}}
    \cup {NoColumnsTable}

\* the Greeks of all expirations: the same (strike, right) at two expirations
PcGreeksRows ==
    {[strike |-> 100, right |-> "PUT", delta |-> <<-40>>, gamma |-> <<2>>],
     [strike |-> 100, right |-> "PUT", delta |-> <<-25>>, gamma |-> <<3>>],
     [strike |-> 100, right |-> "CALL", delta |-> <<30>>, gamma |-> <<2>>]}

PcGreeksTables ==
    {[cols |-> GreeksColumns, rows |-> rs] : rs \in SeqsUpTo(PcGreeksRows, MaxPcJoinRows)}
    \cup {[cols |-> GreeksColumns \ {c}, rows |-> <<SampleGreeksRow>>] : c \in {"strike", "delta"}}
    \cup {NoColumnsTable}

PcOiRows ==
    {[strike |-> 100, right |-> "PUT", open_interest |-> 2],
     [strike |-> 100, right |-> "CALL", open_interest |-> 4]}

PcOiTables ==
    {[cols |-> OiColumns, rows |-> rs] : rs \in SeqsUpTo(PcOiRows, MaxPcJoinRows)}
    \cup {[cols |-> OiColumns \ {"strike"}, rows |-> <<SampleOiRow>>], NoColumnsTable}

PcSpot == 3

InitPcRatios ==
    /\ pc_df_price \in PcPriceTables
    /\ pc_df_greeks \in PcGreeksTables
    /\ pc_df_oi \in PcOiTables
    /\ pc_ratios = NotCalled
    /\ pc_gex = NotCalled
    /\ IdleExposure /\ IdleSkew /\ IdleTerm
    /\ IdleLiquidity /\ IdleHv /\ IdleNorm /\ IdleColumns /\ IdleSystem

\* calculate_daily_metrics step 6
CallPcRatios ==
    /\ pc_ratios = NotCalled
    /\ pc_ratios' = calculate_pc_ratios(pc_df_price, pc_df_greeks, pc_df_oi)
    /\ UNCHANGED <<pc_df_price, pc_df_greeks, pc_df_oi, pc_gex, exposureVars, skewVars,
                   termVars, liquidityVars, hvVars, normVars, columnVars, systemVars>>

\* calculate_daily_metrics step 7
CallPcGexDistribution ==
    /\ pc_gex = NotCalled
    /\ pc_gex' = calculate_gex_distribution(pc_df_greeks, pc_df_oi, PcSpot)
    /\ UNCHANGED <<pc_df_price, pc_df_greeks, pc_df_oi, pc_ratios, exposureVars, skewVars,
                   termVars, liquidityVars, hvVars, normVars, columnVars, systemVars>>

NextPcRatios == CallPcRatios \/ CallPcGexDistribution

SpecPcRatios == InitPcRatios /\ [][NextPcRatios]_vars

----------------------------------------------------------------------------
(* calculate_realized_volatility.  The tables of the model have the default    *)
(* integer index, so lines 172-178 (a date held in the index) do nothing.      *)
(* A defined hv value is held as the closes it is computed from.               *)

\* line 187: log(close / close.shift(1)) is finite iff both closes are positive
LogReturnDefined(rows, i) == i > 1 /\ rows[i].close > 0 /\ rows[i - 1].close > 0

closeOf(r) == r.close

RollingStdFromFirstReturn(rows, i, window) ==
    IF i > 1 /\ \A k \in 2..i : k > i - window => LogReturnDefined(rows, k)
    THEN SubSeq(SeqMap(closeOf, rows), IF i > window THEN i - window ELSE 1, i)
    ELSE NaN

\* lines 190-192: rolling(window).std() needs window defined log returns ending at
\* row i, and at least two of them (the sample standard deviation of one value is
\* undefined)
RollingStd(rows, i, window) ==
    IF window >= 2 /\ i > window /\ \A k \in (i - window + 1)..i : LogReturnDefined(rows, k)
    THEN SubSeq(SeqMap(closeOf, rows), i - window, i)
    ELSE NaN

dateOf(r) == r.date

calculate_realized_volatility(df_stock0, window_set, ties) ==
    LET df0 == normalize_columns(df_stock0) IN
    IF df0.rows = <<>> \/ "close" \notin df0.cols THEN Returned(EmptyTable)
    ELSE
      LET df == IF "date" \in df0.cols THEN SortBy(df0.rows, dateOf, ties) ELSE df0.rows
          hv(i) == [w \in window_set |-> RollingStd(df, i, w)]
          keep == {i \in 1..Len(df) : \A w \in window_set : notna(hv(i)[w])}
          out(i) == IF "date" \in df0.cols
                    THEN [date |-> df[i].date, close |-> df[i].close, hv |-> hv(i)]
                    ELSE [close |-> df[i].close, hv |-> hv(i)]
          kept == SortedSeqOfSet(keep)
      IN  Returned([k \in 1..Len(kept) |-> out(kept[k])])

MaxStockRows == 4

MaxWindow == 3

StockColumns == {"date", "close"}

\* <<date, close>>: four trading days, a second quote for day 2 and a zero close
StockQuotes == {<<1, 10>>, <<2, 11>>, <<3, 12>>, <<4, 11>>, <<2, 13>>, <<3, 0>>}

StockRows == {[date |-> q[1], close |-> q[2]] : q \in StockQuotes}

StockTables ==
    {[cols |-> StockColumns \ drop, rows |-> rs] :
        drop \in {{}, {"date"}}, rs \in SeqsUpTo(StockRows, MaxStockRows)}
    \cup {[cols |-> {"date"}, rows |-> <<[date |-> 1, close |-> 10]>>], NoColumnsTable}

WindowSets == SUBSET (1..MaxWindow) \ {{}}

InitRealizedVol ==
    /\ df_stock \in StockTables
    /\ windows \in WindowSets
    /\ df_hv = NotCalled
    /\ IdleExposure /\ IdleSkew /\ IdleTerm
    /\ IdleLiquidity /\ IdlePc /\ IdleNorm /\ IdleColumns /\ IdleSystem

\* calculate_daily_metrics step 9
CallRealizedVolatility ==
    /\ df_hv = NotCalled
    /\ \E ties \in TieOrders :
          df_hv' = calculate_realized_volatility(df_stock, windows, ties)
    /\ UNCHANGED <<df_stock, windows, exposureVars, skewVars, termVars,
                   liquidityVars, pcVars, normVars, columnVars, systemVars>>

NextRealizedVol == CallRealizedVolatility

SpecRealizedVol == InitRealizedVol /\ [][NextRealizedVol]_vars

----------------------------------------------------------------------------
(* calculate_term_structure_metrics on a table that may lack columns: the      *)
(* column reads of term_structure.py that raise KeyError                       *)

QualityColumns == {"iv_pct", "delta", "volume", "bid"}

\* one pass of the loop of calculate_rr25_by_dte raises: with a row in the window,
\* line 48 reads 'expiration' and lines 124-129 read the quality columns; with a row
\* left by the quality filter, interpolate_iv_at_delta_local line 158 reads 'right'
BucketRaises(df_g, target_dte) ==
    /\ \E i \in 1..Len(df_g.rows) : InWindow(df_g.rows[i].dte, target_dte, Tolerance(target_dte))
    /\ \/ "expiration" \notin df_g.cols
       \/ ~(QualityColumns \subseteq df_g.cols)
       \/ /\ "right" \notin df_g.cols
          /\ LiquidityFilter(find_nearest_expiration(df_g, target_dte,
                                                     Tolerance(target_dte))) # <<>>

\* the outcome of calculate_term_structure_metrics: nothing in term_structure.py
\* catches the KeyError
TermStructureOutcome(df_g, ties) ==
    IF /\ WithDte(df_g).rows # <<>>
       /\ "dte" \in WithDte(df_g).cols
       /\ \E d \in TargetDtes : BucketRaises(WithDte(df_g), d)
    THEN Raised("KeyError")
    ELSE Returned(calculate_term_structure_metrics(df_g, ties))

MaxTcRows == 2

\* the rows of the term-structure tables and one expiration outside every window
TcRows == TsRows \cup {TsRow(<<20, "PUT", 25, 22, 5, 1>>)}

TcTables ==
    {[cols |-> TsColumns \ drop, rows |-> rs] :
        drop \in {{}} \cup {{c} : c \in QualityColumns \cup {"expiration", "right"}},
        rs \in SeqsUpTo(TcRows, MaxTcRows)}

InitTermColumns ==
    /\ tc_greeks \in TcTables
    /\ tc_metrics = NotCalled
    /\ IdleExposure /\ IdleSkew /\ IdleTerm
    /\ IdleLiquidity /\ IdlePc /\ IdleHv /\ IdleNorm /\ IdleSystem

\* calculate_daily_metrics step 5
CallTermStructureOnColumns ==
    /\ tc_metrics = NotCalled
    /\ \E ties \in TieOrders : tc_metrics' = TermStructureOutcome(tc_greeks, ties)
    /\ tc_greeks' = WithDte(tc_greeks)
    /\ UNCHANGED <<exposureVars, skewVars, termVars,
                   liquidityVars, pcVars, hvVars, normVars, systemVars>>

NextTermColumns == CallTermStructureOnColumns

SpecTermColumns == InitTermColumns /\ [][NextTermColumns]_vars

----------------------------------------------------------------------------
(* normalize_columns applied to a table, and again to its own result *)

MaxRawRows == 2

\* strikes in dollars and in thousandths of a dollar, on both sides of the threshold
RawStrikes == {100, 10000, 11000, 450000, 10000000, 20000000}

\* "nan" is what astype(str) makes of a missing value
RawRightCodes == {"P", " c ", "PUT", " x ", "nan"}

RawImpliedVol == 2

RawRows ==
    {[strike |-> k, right |-> c, implied_vol |-> RawImpliedVol] :
        k \in RawStrikes, c \in RawRightCodes}

\* the column names under which a feed delivers the three columns
RawColumnSets ==
    {{"strike", "right", "implied_vol"}, {"strike", "cp", "implied_vol"},
     {"strike", "type"}, {"right", "implied_vol"}}

\* strikes are integers in the model: the tables are those whose strikes stay
\* integers under every division by 1000 that two passes of correction #3 perform
StaysIntegral(rs) ==
    LET top == SetMax({rs[i].strike : i \in 1..Len(rs)})
        all(m) == \A i \in 1..Len(rs) : rs[i].strike % m = 0
    IN  rs # <<>> =>
          /\ top > StrikeThreshold => all(MilliDivisor)
          /\ top > StrikeThreshold * MilliDivisor => all(MilliDivisor * MilliDivisor)

RawTables ==
    {[cols |-> cs, rows |-> rs] :
        cs \in RawColumnSets, rs \in {q \in SeqsUpTo(RawRows, MaxRawRows) : StaysIntegral(q)}}

InitNormalize ==
    /\ raw_table \in RawTables
    /\ once = NotCalled
    /\ twice = NotCalled
    /\ IdleExposure /\ IdleSkew /\ IdleTerm
    /\ IdleLiquidity /\ IdlePc /\ IdleHv /\ IdleColumns /\ IdleSystem

CallNormalize ==
    /\ once = NotCalled
    /\ once' = Returned(normalize_columns(raw_table))
    /\ UNCHANGED <<raw_table, twice>>
    /\ UNCHANGED <<exposureVars, skewVars, termVars,
                   liquidityVars, pcVars, hvVars, columnVars, systemVars>>

\* a calculator receiving a table that was normalised before
CallNormalizeAgain ==
    /\ once # NotCalled
    /\ twice = NotCalled
    /\ twice' = Returned(normalize_columns(once.value))
    /\ UNCHANGED <<raw_table, once>>
    /\ UNCHANGED <<exposureVars, skewVars, termVars,
                   liquidityVars, pcVars, hvVars, columnVars, systemVars>>

NextNormalize == CallNormalize \/ CallNormalizeAgain

SpecNormalize == InitNormalize /\ [][NextNormalize]_vars

----------------------------------------------------------------------------
(* ThetaDataAPI.fetch followed by a calculator's normalize_columns *)

calculatorVars ==
    <<exposureVars, skewVars, termVars, liquidityVars, pcVars, hvVars, normVars, columnVars>>

IdleCalculators ==
    /\ IdleExposure /\ IdleSkew /\ IdleTerm
    /\ IdleLiquidity /\ IdlePc /\ IdleHv /\ IdleNorm /\ IdleColumns

\* steps 5 to 8 of fetch on the table parsed from the response: an empty table is
\* returned as pd.DataFrame(); right codes are upper-cased and stripped and only the
\* rows with CALL or PUT are kept; iv_pct is set from implied_vol; every strike is
\* divided by 1000
fetch(csv) ==
    IF csv.rows = <<>> THEN NoColumnsTable
    ELSE
      LET upper(r) == IF "right" \in csv.cols
                      THEN [r EXCEPT !.right = UpperStrip(@)] ELSE r
          kept == SelectSeq([i \in 1..Len(csv.rows) |-> upper(csv.rows[i])],
                            LAMBDA r : "right" \in csv.cols => r.right \in {"CALL", "PUT"})
          fixIv(r) == IF "implied_vol" \in csv.cols
                      THEN [iv_pct |-> r.implied_vol * IvPercent] @@ r ELSE r
          fixStrike(r) == IF "strike" \in csv.cols
                          THEN [r EXCEPT !.strike = @ \div MilliDivisor] ELSE r
      IN  [cols |-> IF "implied_vol" \in csv.cols THEN csv.cols \cup {"iv_pct"} ELSE csv.cols,
           rows |-> [i \in 1..Len(kept) |-> fixStrike(fixIv(kept[i]))]]

MaxFeedRows == 2

\* strikes as the feed delivers them, in thousandths of a price unit: true strikes of
\* 5, 450, 10000 and 12000 price units
FeedMilliStrikes == {5000, 450000, 10000000, 12000000}

FeedRightCodes == {"CALL", "put", "P"}

FeedRows == {[strike |-> m, right |-> c] : m \in FeedMilliStrikes, c \in FeedRightCodes}

FeedTables ==
    {[cols |-> cs, rows |-> rs] :
        cs \in {{"strike", "right"}, {"strike"}},
        rs \in {q \in SeqsUpTo(FeedRows, MaxFeedRows) : StaysIntegral(q)}}

InitFeed ==
    /\ feed_csv \in FeedTables
    /\ fetched = NotCalled
    /\ feed_norm = NotCalled
    /\ IdleCalculators
    /\ IdleSystemBut("feed")

\* collect_all_expirations_data: the tables come from ThetaDataAPI.fetch
CallFetch ==
    /\ fetched = NotCalled
    /\ fetched' = Returned(fetch(feed_csv))
    /\ UNCHANGED <<feed_csv, feed_norm, calculatorVars>>
    /\ SystemUnchangedBut("feed")

\* a calculator normalises the table it is passed before operating on it
CallNormalizeFetched ==
    /\ fetched # NotCalled
    /\ feed_norm = NotCalled
    /\ feed_norm' = Returned(normalize_columns(fetched.value))
    /\ UNCHANGED <<feed_csv, fetched, calculatorVars>>
    /\ SystemUnchangedBut("feed")

NextFeed == CallFetch \/ CallNormalizeFetched

SpecFeed == InitFeed /\ [][NextFeed]_vars

----------------------------------------------------------------------------
(* StorageManager.save_daily_metrics on the master daily file of one symbol *)

dateKey(r) == r.date

save_keeping_same_date(file, metrics, ties) ==
    IF file.exists
    THEN [exists |-> TRUE, rows |-> SortBy(file.rows \o <<metrics>>, dateKey, ties)]
    ELSE [exists |-> TRUE, rows |-> <<metrics>>]

\* lines 52-62: the new record alone when the file does not exist; otherwise the
\* stored rows of other dates followed by the new record, sorted by date
save_daily_metrics(file, metrics, ties) ==
    IF file.exists
    THEN [exists |-> TRUE,
          rows |-> SortBy(SelectSeq(file.rows, LAMBDA r : r.date # metrics.date)
                            \o <<metrics>>,
                          dateKey, ties)]
    ELSE [exists |-> TRUE, rows |-> <<metrics>>]

MaxSaves == 3

\* dates are YYYYMMDD strings of one width, ordered as the integers of the model
SaveDates == 1..3

\* a record with its spot price, or the short record of a date without spot price
SavedSpotPrices == {NaN, <<1>>, <<2>>}

DailyRecords == {[date |-> d, spot_price |-> p] : d \in SaveDates, p \in SavedSpotPrices}

InitStorage ==
    /\ master_file = NoFile
    /\ master_before = NoFile
    /\ saves = <<>>
    /\ IdleCalculators
    /\ IdleSystemBut("storage")

SaveDailyMetrics ==
    /\ Len(saves) < MaxSaves
    /\ \E metrics \in DailyRecords, ties \in TieOrders :
          /\ master_file' = save_daily_metrics(master_file, metrics, ties)
          /\ saves' = Append(saves, metrics)
    /\ master_before' = master_file
    /\ UNCHANGED calculatorVars
    /\ SystemUnchangedBut("storage")

NextStorage == SaveDailyMetrics

SpecStorage == InitStorage /\ [][NextStorage]_vars

----------------------------------------------------------------------------
(* PriceHistoryManager.save_stock_history / save_term_structure_history *)

\* DataFrame.drop_duplicates(subset=['date']), keep='first' by default: a row stays
\* when no earlier row has its date
drop_duplicates(rows) ==
    LET first == {i \in 1..Len(rows) : \A j \in 1..(i - 1) : rows[j].date # rows[i].date}
        idx == SortedSeqOfSet(first)
    IN  [k \in 1..Len(idx) |-> rows[idx[k]]]

\* the two save methods have the same body: nothing for an empty table; the table as
\* supplied when the file does not exist; otherwise the stored rows followed by the
\* supplied rows, without the later rows of a repeated date, sorted by date
save_history(file, df, ties) ==
    IF df = <<>> THEN file
    ELSE IF file.exists
    THEN [exists |-> TRUE, rows |-> SortBy(drop_duplicates(file.rows \o df), dateKey, ties)]
    ELSE [exists |-> TRUE, rows |-> df]

MaxHistSaves == 3

HistDates == 1..2

HistCloses == 1..2

HistRows == {[date |-> d, close |-> c] : d \in HistDates, c \in HistCloses}

\* the table of one call: df_spot or df_ts of one date, a range of ascending dates
\* from collect_stock_price_history, or an empty table
HistFrames ==
    {<<>>} \cup {<<r>> : r \in HistRows}
           \cup {<<r, q>> : r \in {x \in HistRows : x.date = 1},
                             q \in {x \in HistRows : x.date = 2}}

InitHistory ==
    /\ hist_file = NoFile
    /\ hist_before = NoFile
    /\ hist_saves = <<>>
    /\ IdleCalculators
    /\ IdleSystemBut("hist")

SaveHistory ==
    /\ Len(hist_saves) < MaxHistSaves
    /\ \E df \in HistFrames, ties \in TieOrders :
          /\ hist_file' = save_history(hist_file, df, ties)
          /\ hist_saves' = Append(hist_saves, df)
    /\ hist_before' = hist_file
    /\ UNCHANGED calculatorVars
    /\ SystemUnchangedBut("hist")

NextHistory == SaveHistory

SpecHistory == InitHistory /\ [][NextHistory]_vars

----------------------------------------------------------------------------
(* Two workers calling StorageManager without coordination *)

Workers == {1, 2}

\* the symbol whose state worker w updates; the date worker w saves is w
WorkerSymbol(w) == IF w = 1 THEN "SPY" ELSE "QQQ"

WorkerRecord(w) == [date |-> w, spot_price |-> <<w>>]

\* the state file: rows is the dictionary symbol -> entry (last_update is left out)
NoState == [exists |-> FALSE, rows |-> EmptyDict]

\* update_state lines 117-122 on the dictionary that was read
update_state(state, symbol, date, status) ==
    (symbol :> [last_date |-> date, status |-> status]) @@ state

\* the shared files before the workers start
InitialMasters == {NoFile, [exists |-> TRUE, rows |-> <<[date |-> 3, spot_price |-> <<3>>]>>]}

InitialStates ==
    {NoState,
     [exists |-> TRUE, rows |-> ("IWM" :> [last_date |-> 3, status |-> "success"])]}

InitWorkers ==
    /\ w_master \in InitialMasters
    /\ w_state \in InitialStates
    /\ w_proc \in [Workers -> [task : {"save_daily_metrics", "update_state"}, at : {"start"}]]
    /\ w_read = [w \in Workers |-> NoFile]
    /\ IdleCalculators
    /\ IdleSystemBut("workers")

\* save_daily_metrics lines 55-56: filepath.exists() and read_parquet
ReadMaster(w) ==
    /\ w_proc[w] = [task |-> "save_daily_metrics", at |-> "start"]
    /\ w_read' = [w_read EXCEPT ![w] = w_master]
    /\ w_proc' = [w_proc EXCEPT ![w].at = "read"]
    /\ UNCHANGED <<w_master, w_state, calculatorVars>>
    /\ SystemUnchangedBut("workers")

\* save_daily_metrics lines 57-62: to_parquet of the table built from what was read
WriteMaster(w) ==
    /\ w_proc[w] = [task |-> "save_daily_metrics", at |-> "read"]
    /\ \E ties \in TieOrders :
          w_master' = save_daily_metrics(w_read[w], WorkerRecord(w), ties)
    /\ w_proc' = [w_proc EXCEPT ![w].at = "done"]
    /\ UNCHANGED <<w_state, w_read, calculatorVars>>
    /\ SystemUnchangedBut("workers")

\* update_state lines 109-115: json.load of the state file, {} without a file
ReadState(w) ==
    /\ w_proc[w] = [task |-> "update_state", at |-> "start"]
    /\ w_read' = [w_read EXCEPT ![w] = w_state]
    /\ w_proc' = [w_proc EXCEPT ![w].at = "read"]
    /\ UNCHANGED <<w_master, w_state, calculatorVars>>
    /\ SystemUnchangedBut("workers")

\* update_state lines 117-125: json.dump of the dictionary that was read, updated
WriteState(w) ==
    /\ w_proc[w] = [task |-> "update_state", at |-> "read"]
    /\ w_state' = [exists |-> TRUE,
                   rows |-> update_state(w_read[w].rows, WorkerSymbol(w), w, "success")]
    /\ w_proc' = [w_proc EXCEPT ![w].at = "done"]
    /\ UNCHANGED <<w_master, w_read, calculatorVars>>
    /\ SystemUnchangedBut("workers")

NextWorkers ==
    \/ \E w \in Workers : ReadMaster(w)
    \/ \E w \in Workers : WriteMaster(w)
    \/ \E w \in Workers : ReadState(w)
    \/ \E w \in Workers : WriteState(w)

SpecWorkers == InitWorkers /\ [][NextWorkers]_vars

----------------------------------------------------------------------------
(* The body of the collection drivers' loop, for one symbol *)

MaxDriverDays == 3

DriverDates == 1..2

\* calculate_daily_metrics: the record of a date with its spot price, or the short
\* record returned at line 165 when the feed has no spot price for the date
CollectedRecords(d) == {[date |-> d, spot_price |-> p] : p \in SavedSpotPrices}

\* an entry of the state file (update_state); <<>> before the first update
StateEntry(d) == [last_date |-> d, status |-> "success"]

InitDriver ==
    /\ drv_master = NoFile
    /\ drv_before = NoFile
    /\ drv_state = <<>>
    /\ drv_days = 0
    /\ IdleCalculators
    /\ IdleSystemBut("driver")

\* one pass of the loop in which nothing raises: calculate_daily_metrics,
\* save_daily_metrics, update_state(..., 'success')
ProcessDate ==
    /\ drv_days < MaxDriverDays
    /\ \E d \in DriverDates :
          /\ \E metrics \in CollectedRecords(d), ties \in TieOrders :
                drv_master' = save_daily_metrics(drv_master, metrics, ties)
          /\ drv_state' = StateEntry(d)
    /\ drv_before' = drv_master
    /\ drv_days' = drv_days + 1
    /\ UNCHANGED calculatorVars
    /\ SystemUnchangedBut("driver")

\* one pass in which calculate_daily_metrics raises: nothing is saved
ProcessDateRaises ==
    /\ drv_days < MaxDriverDays
    /\ drv_days' = drv_days + 1
    /\ drv_before' = drv_master
    /\ UNCHANGED <<drv_master, drv_state, calculatorVars>>
    /\ SystemUnchangedBut("driver")

NextDriver == ProcessDate \/ ProcessDateRaises

SpecDriver == InitDriver /\ [][NextDriver]_vars

----------------------------------------------------------------------------
(* daily_collection_job: the loop over settings.SYMBOLS inside one try block *)

MaxJobSymbols == 4

\* settings.SYMBOLS, by position
JobSymbols == 1..MaxJobSymbols

\* a pass of the loop body that raises nothing: the record saved is complete, or is
\* the short record of a symbol without spot price, or comes with a gex distribution
\* that is saved too (lines 36-37)
PassOutcomes == {"saved", "saved_short", "saved_with_gex"}

\* the call of the loop body that raises
RaisingCalls == {"calculate_daily_metrics", "save_daily_metrics", "check_and_alert"}

InitJob ==
    /\ job_log = <<>>
    /\ job_status = "running"
    /\ IdleCalculators
    /\ IdleSystemBut("job")

\* lines 30-41 for the next symbol, nothing raising
ProcessSymbol ==
    /\ job_status = "running"
    /\ Len(job_log) < MaxJobSymbols
    /\ \E o \in PassOutcomes : job_log' = Append(job_log, o)
    /\ UNCHANGED <<job_status, calculatorVars>>
    /\ SystemUnchangedBut("job")

\* a call of the loop body raises: control leaves the for loop for the handler at
\* lines 51-53, which logs the failure and returns
ProcessSymbolRaises ==
    /\ job_status = "running"
    /\ Len(job_log) < MaxJobSymbols
    /\ \E c \in RaisingCalls : job_log' = Append(job_log, c)
    /\ job_status' = "failed"
    /\ UNCHANGED calculatorVars
    /\ SystemUnchangedBut("job")

\* the loop is exhausted: lines 43-49
FinishJob ==
    /\ job_status = "running"
    /\ Len(job_log) = MaxJobSymbols
    /\ job_status' = "completed"
    /\ UNCHANGED <<job_log, calculatorVars>>
    /\ SystemUnchangedBut("job")

NextJob == ProcessSymbol \/ ProcessSymbolRaises \/ FinishJob

SpecJob == InitJob /\ [][NextJob]_vars

----------------------------------------------------------------------------
(* backfill_all_sp500.main: runs of the backfill, each of which may be interrupted *)

MaxBackfillRuns == 3

MaxBackfillSymbols == 2

\* settings.SYMBOLS, by position
BackfillSymbols == 1..MaxBackfillSymbols

\* the file after open(STATE_FILE, 'w') and before json.dump has written it
TruncatedFile == [kind |-> "truncated"]

JsonFile(progress) == [kind |-> "json", progress |-> progress]

Members(seq) == {seq[i] : i \in 1..Len(seq)}

\* line 249: the symbols of the list that are not completed, in list order
Remaining(completed) ==
    LET idx == SortedSeqOfSet({sym \in BackfillSymbols : sym \notin completed})
    IN  idx

NotRunning == {"not_started", "interrupted", "crashed", "finished"}

InitBackfill ==
    /\ bf_file = AbsentFile
    /\ bf_progress = FreshProgress
    /\ bf_remaining = <<>>
    /\ bf_pc = "not_started"
    /\ bf_redone = {}
    /\ bf_runs = 0
    /\ IdleCalculators
    /\ IdleSystemBut("backfill")

\* lines 246-249: load_progress and the list of remaining symbols; json.load raises on
\* a file that holds no complete JSON document, and nothing catches it
StartRun ==
    /\ bf_pc \in NotRunning
    /\ bf_runs < MaxBackfillRuns
    /\ bf_runs' = bf_runs + 1
    /\ IF bf_file = TruncatedFile
       THEN /\ bf_pc' = "crashed"
            /\ UNCHANGED <<bf_progress, bf_remaining>>
       ELSE LET progress == IF bf_file = AbsentFile THEN FreshProgress
                            ELSE bf_file.progress
            IN  /\ bf_progress' = progress
                /\ bf_remaining' = Remaining(Members(progress.completed_symbols))
                /\ bf_pc' = "loop"
    /\ UNCHANGED <<bf_file, bf_redone, calculatorVars>>
    /\ SystemUnchangedBut("backfill")

\* line 258 and save_progress line 42: current_symbol is set and the file is opened
\* for writing, which empties it
MarkCurrentOpen ==
    /\ bf_pc = "loop"
    /\ bf_remaining # <<>>
    /\ bf_progress' = [bf_progress EXCEPT !.current_symbol = Head(bf_remaining)]
    /\ bf_file' = TruncatedFile
    /\ bf_pc' = "mark_dump"
    /\ UNCHANGED <<bf_remaining, bf_redone, bf_runs, calculatorVars>>
    /\ SystemUnchangedBut("backfill")

\* save_progress line 43: json.dump and the close of the file
MarkCurrentDump ==
    /\ bf_pc = "mark_dump"
    /\ bf_file' = JsonFile(bf_progress)
    /\ bf_pc' = "backfill"
    /\ UNCHANGED <<bf_progress, bf_remaining, bf_redone, bf_runs, calculatorVars>>
    /\ SystemUnchangedBut("backfill")

\* lines 261-264 or 266-269: backfill_symbol returns or raises; either way the symbol
\* is appended to completed_symbols
BackfillSymbol ==
    /\ bf_pc = "backfill"
    /\ LET sym == Head(bf_remaining) IN
       /\ \E raised \in BOOLEAN :
             bf_progress' =
                 [bf_progress EXCEPT
                     !.completed_symbols = Append(@, sym),
                     !.current_symbol = IF raised THEN @ ELSE 0,
                     !.failed = IF raised THEN @ \cup {sym} ELSE @]
       /\ bf_redone' = IF /\ bf_file.kind = "json"
                          /\ sym \in Members(bf_file.progress.completed_symbols)
                       THEN bf_redone \cup {sym} ELSE bf_redone
    /\ bf_pc' = "record_open"
    /\ UNCHANGED <<bf_file, bf_remaining, bf_runs, calculatorVars>>
    /\ SystemUnchangedBut("backfill")

\* save_progress line 42 at line 265 or 270
RecordOpen ==
    /\ bf_pc = "record_open"
    /\ bf_file' = TruncatedFile
    /\ bf_pc' = "record_dump"
    /\ UNCHANGED <<bf_progress, bf_remaining, bf_redone, bf_runs, calculatorVars>>
    /\ SystemUnchangedBut("backfill")

\* save_progress line 43 at line 265 or 270, and the step of the for loop
RecordDump ==
    /\ bf_pc = "record_dump"
    /\ bf_file' = JsonFile(bf_progress)
    /\ bf_remaining' = Tail(bf_remaining)
    /\ bf_pc' = "loop"
    /\ UNCHANGED <<bf_progress, bf_redone, bf_runs, calculatorVars>>
    /\ SystemUnchangedBut("backfill")

\* lines 273-278: the loop is exhausted
FinishRun ==
    /\ bf_pc = "loop"
    /\ bf_remaining = <<>>
    /\ bf_pc' = "finished"
    /\ UNCHANGED <<bf_file, bf_progress, bf_remaining, bf_redone, bf_runs, calculatorVars>>
    /\ SystemUnchangedBut("backfill")

\* the process is stopped between two steps; the file stays as it is
Interrupt ==
    /\ bf_pc \notin NotRunning
    /\ bf_pc' = "interrupted"
    /\ bf_progress' = FreshProgress
    /\ bf_remaining' = <<>>
    /\ UNCHANGED <<bf_file, bf_redone, bf_runs, calculatorVars>>
    /\ SystemUnchangedBut("backfill")

NextBackfill ==
    \/ StartRun
    \/ MarkCurrentOpen
    \/ MarkCurrentDump
    \/ BackfillSymbol
    \/ RecordOpen
    \/ RecordDump
    \/ FinishRun
    \/ Interrupt

SpecBackfill == InitBackfill /\ [][NextBackfill]_vars

----------------------------------------------------------------------------
(* Claims on the interpolation utility *)

InterpCalled == interp_call # NotCalled

RequiredPresent == {"right", "iv_pct", "delta"} \subseteq chain.cols

\* the rows of the requested right with IV > 0 and delta defined
ValidRows ==
    {i \in 1..Len(chain.rows) :
        /\ chain.rows[i].right = interp_call.option_type
        /\ chain.rows[i].iv_pct > 0
        /\ notna(chain.rows[i].delta)}

\* the valid rows that also have volume > 0 when the table has a volume column
ValidLiquidRows ==
    {i \in ValidRows : "volume" \in chain.cols => chain.rows[i].volume > 0}

X(i) == Abs(chain.rows[i].delta[1])

Y(i) == chain.rows[i].iv_pct

InRange(V, t) ==
    /\ V # {}
    /\ \E i \in V : X(i) <= t
    /\ \E i \in V : X(i) >= t

\* res is the value at t of the line through samples lo and hi, which are neighbours
\* in absolute-delta order with t strictly between them
BetweenNeighbours(V, t, res) ==
    \E lo, hi \in V :
        /\ X(lo) < t /\ t < X(hi)
        /\ \A k \in V : X(k) <= X(lo) \/ X(k) >= X(hi)
        /\ res[1] * (X(hi) - X(lo)) = res[2] * (Y(lo) * (X(hi) - t) + Y(hi) * (t - X(lo)))

\* C4 as stated: over the valid rows (IV > 0, delta defined) the result is defined iff
\* the target lies within [min, max] of the absolute deltas; it is the linear
\* interpolation between the neighbouring samples, and a target equal to a sample's
\* absolute delta returns exactly that sample's IV.
C4_InterpolationOverValidRows ==
    (InterpCalled /\ RequiredPresent) =>
        LET t == interp_call.target_delta
            res == interp_call.result
        IN  /\ isfinite(res) <=> InRange(ValidRows, t)
            /\ isfinite(res) =>
                  /\ \A i \in ValidRows : X(i) = t => res = <<Y(i), 1>>
                  /\ (\A i \in ValidRows : X(i) # t) => BetweenNeighbours(ValidRows, t, res)

\* C4 as amended: the same over the rows that pass the function's own filter (IV > 0,
\* delta defined and, when the table has a volume column, volume > 0); a target equal
\* to the absolute delta of one or more samples returns the IV of one of them.
C4_InterpolationOverFilteredRows ==
    (InterpCalled /\ RequiredPresent) =>
        LET t == interp_call.target_delta
            res == interp_call.result
            hits == {i \in ValidLiquidRows : X(i) = t}
        IN  /\ isfinite(res) <=> InRange(ValidLiquidRows, t)
            /\ isfinite(res) =>
                  /\ hits # {} => \E i \in hits : res = <<Y(i), 1>>
                  /\ hits = {} => BetweenNeighbours(ValidLiquidRows, t, res)

\* a value interpolated strictly between two samples while a row without volume is
\* left out
C4_Witness ==
    /\ InterpCalled /\ RequiredPresent
    /\ isfinite(interp_call.result)
    /\ \A i \in ValidLiquidRows : X(i) # interp_call.target_delta
    /\ ValidRows # ValidLiquidRows
    /\ interp_call.result[2] > 1

\* C5: the result is undefined whenever fewer than 2 distinct (absolute delta, IV)
\* points remain after filtering, a single point at the target delta included.
C5_UndefinedBelowTwoPoints ==
    (InterpCalled /\ RequiredPresent) =>
        (Cardinality({<<X(i), Y(i)>> : i \in ValidLiquidRows}) < 2
            => interp_call.result = NaN)

----------------------------------------------------------------------------
(* Claims on the skew engine and the term structure *)

SkewReturned == skew_metrics # NotCalled

TermReturned == ts_metrics # NotCalled

Bucket(d) == ts_metrics.value.buckets[d]

HasWindowRow(d) ==
    \E i \in 1..Len(ts_greeks.rows) : InWindow(ts_greeks.rows[i].dte, d, Tolerance(d))

\* the rows of the expiration selected for bucket d that pass the liquidity filter
LiquidSlice(d) ==
    IF Bucket(d).actual_dte = None THEN <<>>
    ELSE SelectSeq(ts_greeks.rows, LAMBDA r : /\ r.dte = Bucket(d).actual_dte[1]
                                              /\ r.iv_pct > 0
                                              /\ notna(r.delta)
                                              /\ r.volume > 0
                                              /\ r.bid > 0)

\* c = a - b on reduced fractions, by cross-multiplication
IsDifference(c, a, b) == c[1] * a[2] * b[2] = c[2] * (a[1] * b[2] - b[1] * a[2])

\* c = (a + b) / 2 on reduced fractions, by cross-multiplication
IsAverage(c, a, b) == 2 * c[1] * a[2] * b[2] = c[2] * (a[1] * b[2] + b[1] * a[2])

DefinedIffBothAndDifference(rr25, put, call) ==
    /\ isfinite(rr25) <=> (isfinite(put) /\ isfinite(call))
    /\ isfinite(rr25) => IsDifference(rr25, put, call)

BucketIv(d, target_delta, option_type) ==
    interpolate_iv_at_delta_local(LiquidSlice(d), target_delta, option_type, ts_metrics.ties)

\* C6: in calculate_skew_metrics and in every term-structure bucket, rr25 is defined
\* iff both iv_25d_put and iv_25d_call are defined, and then equals
\* iv_25d_put - iv_25d_call.
C6_RiskReversalIsPutMinusCall ==
    /\ SkewReturned =>
          DefinedIffBothAndDifference(skew_metrics.value.rr25,
                                      skew_metrics.value.iv_25d_put,
                                      skew_metrics.value.iv_25d_call)
    /\ TermReturned =>
          \A d \in TargetDtes :
              DefinedIffBothAndDifference(Bucket(d).rr25,
                                          BucketIv(d, Delta25, "PUT"),
                                          BucketIv(d, Delta25, "CALL"))

\* 22 and 17 give 5 in the skew engine and in the 7-day bucket; another bucket has a
\* 25-delta put but no call and so no rr25
C6_Witness ==
    /\ SkewReturned /\ TermReturned
    /\ skew_metrics.value.iv_25d_put = <<22, 1>>
    /\ skew_metrics.value.iv_25d_call = <<17, 1>>
    /\ skew_metrics.value.rr25 = <<5, 1>>
    /\ Bucket(7).rr25 = <<5, 1>>
    /\ \E d \in TargetDtes : isfinite(BucketIv(d, Delta25, "PUT")) /\ Bucket(d).rr25 = NaN

MeanOfDefined(m, call, put) ==
    /\ (isfinite(call) /\ isfinite(put)) => (isfinite(m) /\ IsAverage(m, call, put))
    /\ (isfinite(call) /\ ~isfinite(put)) => m = call
    /\ (~isfinite(call) /\ isfinite(put)) => m = put
    /\ (~isfinite(call) /\ ~isfinite(put)) => m = NaN

SkewIv(target_delta, option_type) ==
    interpolate_iv_at_delta(ts_greeks, target_delta, option_type, skew_metrics.ties)

\* C7: iv_atm is the mean of the defined ones among the 0.50-delta call IV and the
\* 0.50-delta put IV (undefined when neither is defined), and bf25 is defined only
\* when iv_25d_put, iv_25d_call and iv_atm are all defined.
C7_AtmIsMeanOfDefined ==
    /\ SkewReturned =>
          /\ MeanOfDefined(skew_metrics.value.iv_atm,
                           SkewIv(DeltaAtm, "CALL"), SkewIv(DeltaAtm, "PUT"))
          /\ isfinite(skew_metrics.value.bf25) =>
                /\ isfinite(skew_metrics.value.iv_25d_put)
                /\ isfinite(skew_metrics.value.iv_25d_call)
                /\ isfinite(skew_metrics.value.iv_atm)
    /\ TermReturned =>
          \A d \in TargetDtes :
              MeanOfDefined(Bucket(d).iv_atm,
                            BucketIv(d, DeltaAtm, "CALL"), BucketIv(d, DeltaAtm, "PUT"))

\* both sides have a 0.50-delta IV in the skew engine and iv_atm is their average,
\* which is not an integer; a bucket has only the put side and its iv_atm is that IV;
\* bf25 is undefined although iv_atm is defined
C7_Witness ==
    /\ SkewReturned /\ TermReturned
    /\ isfinite(SkewIv(DeltaAtm, "PUT")) /\ isfinite(SkewIv(DeltaAtm, "CALL"))
    /\ skew_metrics.value.iv_atm[2] = 2
    /\ skew_metrics.value.bf25 = NaN
    /\ \E d \in TargetDtes :
          /\ isfinite(BucketIv(d, DeltaAtm, "PUT"))
          /\ ~isfinite(BucketIv(d, DeltaAtm, "CALL"))
          /\ Bucket(d).iv_atm = BucketIv(d, DeltaAtm, "PUT")

\* C8: for each bucket, whenever a row has dte within [target - tolerance,
\* target + tolerance], the recorded actual_dte lies in that window and no row in the
\* window is strictly closer to the target.
C8_ActualDteIsClosestInWindow ==
    TermReturned =>
        \A d \in TargetDtes :
            HasWindowRow(d) =>
                /\ Bucket(d).actual_dte # None
                /\ InWindow(Bucket(d).actual_dte[1], d, Tolerance(d))
                /\ \A i \in 1..Len(ts_greeks.rows) :
                      InWindow(ts_greeks.rows[i].dte, d, Tolerance(d))
                          => Abs(Bucket(d).actual_dte[1] - d) <= Abs(ts_greeks.rows[i].dte - d)

\* target 7: an expiration at 9 days comes first in the table, the one at 8 days is
\* selected
C8_Witness ==
    /\ TermReturned
    /\ Len(ts_greeks.rows) >= 2
    /\ ts_greeks.rows[1].dte = 9
    /\ \E i \in 1..Len(ts_greeks.rows) : ts_greeks.rows[i].dte = 8
    /\ \A i \in 1..Len(ts_greeks.rows) : ts_greeks.rows[i].dte \in {8, 9}
    /\ Bucket(7).actual_dte = <<8>>

\* the table without the rows in the window of bucket d
WithoutWindow(d) ==
    [cols |-> ts_greeks.cols,
     rows |-> SelectSeq(ts_greeks.rows, LAMBDA r : ~InWindow(r.dte, d, Tolerance(d)))]

\* C9: every bucket of {0, 7, 30, 60} is returned with rr25, iv_atm and actual_dte; a
\* bucket with no row in its window has all three undefined; and the other buckets
\* have the same values whether or not that bucket's window contains rows.
C9_BucketsAlwaysPresentAndIndependent ==
    TermReturned =>
        /\ DOMAIN ts_metrics.value.buckets = TargetDtes
        /\ \A d \in TargetDtes :
              /\ DOMAIN Bucket(d) = {"rr25", "iv_atm", "actual_dte"}
              /\ ~HasWindowRow(d) => Bucket(d) = UndefinedBucket
              /\ \A e \in TargetDtes \ {d} :
                    calculate_rr25_by_dte(WithoutWindow(d), {e}, ts_metrics.ties)[e]
                        = Bucket(e)

\* the 30-day bucket has no row in its window and is undefined while the 7-day bucket
\* has an rr25 and the 0-day bucket an iv_atm
C9_Witness ==
    /\ TermReturned
    /\ ~HasWindowRow(30)
    /\ Bucket(30) = UndefinedBucket
    /\ isfinite(Bucket(7).rr25)
    /\ isfinite(Bucket(0).iv_atm)

\* C10: for every bucket, rr25 and iv_atm equal the rr25 and iv_atm that
\* calculate_skew_metrics returns on the rows of the selected expiration that pass the
\* liquidity filter.
C10_BucketEqualsSkewEngineOnSlice ==
    TermReturned =>
        \A d \in TargetDtes :
            LET onSlice == calculate_skew_metrics([cols |-> ts_greeks.cols,
                                                   rows |-> LiquidSlice(d)],
                                                  ts_metrics.ties)
            IN  /\ Bucket(d).rr25 = onSlice.rr25
                /\ Bucket(d).iv_atm = onSlice.iv_atm

\* the selected expiration has a 25-delta put without a bid that the slice leaves
\* out, and rr25 is defined on the rest
C10_Witness ==
    /\ TermReturned
    /\ Bucket(7).actual_dte # None
    /\ isfinite(Bucket(7).rr25)
    /\ \E i \in 1..Len(ts_greeks.rows) :
          /\ ts_greeks.rows[i].dte = Bucket(7).actual_dte[1]
          /\ ts_greeks.rows[i].bid = 0

----------------------------------------------------------------------------
(* Claims on the exposure calculators *)

SumOver(n, term(_)) ==
    LET f[k \in 0..n] == IF k = 0 THEN 0 ELSE f[k - 1] + term(k) IN f[n]

NetReturned == net_exposures.status = "returned"

\* the joined rows: pairs (i, j) of a Greeks row and an open-interest row that agree
\* on strike and right
JoinedPairs ==
    {p \in (1..Len(df_greeks.rows)) \X (1..Len(df_oi.rows)) :
        /\ df_greeks.rows[p[1]].strike = df_oi.rows[p[2]].strike
        /\ df_greeks.rows[p[1]].right = df_oi.rows[p[2]].right}

KeptPair(p) ==
    /\ p \in JoinedPairs
    /\ "delta" \in df_greeks.cols /\ notna(df_greeks.rows[p[1]].delta)
    /\ "gamma" \in df_greeks.cols /\ notna(df_greeks.rows[p[1]].gamma)
    /\ "open_interest" \in df_oi.cols /\ df_oi.rows[p[2]].open_interest > 0

\* sum of term(i, j) over the kept pairs whose right is in rights
KeptSum(rights, term(_, _)) ==
    LET inner(i) == SumOver(Len(df_oi.rows),
                        LAMBDA j : IF KeptPair(<<i, j>>) /\ df_greeks.rows[i].right \in rights
                                   THEN term(i, j) ELSE 0)
    IN  SumOver(Len(df_greeks.rows), inner)

DeltaExposure(i, j) ==
    df_greeks.rows[i].delta[1] * df_oi.rows[j].open_interest * ContractMultiplier

GammaExposure(i, j) ==
    df_greeks.rows[i].gamma[1] * df_oi.rows[j].open_interest * ContractMultiplier * spot_price

PairOi(i, j) == df_oi.rows[j].open_interest

\* C1: when the inner join on (strike, right) is non-empty, calculate_net_exposures
\* keeps exactly the joined rows with defined delta, defined gamma and
\* open_interest > 0; net_delta is the sum of delta*open_interest*100 over all kept
\* rows and net_gamma is the sum of gamma*open_interest*100*spot over the kept CALL
\* rows minus the same sum over the kept PUT rows.
C1_NetExposureSums ==
    (/\ NetReturned
     /\ JoinKeys \subseteq df_greeks.cols /\ JoinKeys \subseteq df_oi.cols
     /\ JoinedPairs # {})
    => /\ DOMAIN net_exposures.value = DOMAIN zero_metrics
       /\ net_exposures.value.net_delta = KeptSum({"CALL", "PUT"}, DeltaExposure)
       /\ net_exposures.value.net_gamma =
              KeptSum({"CALL"}, GammaExposure) - KeptSum({"PUT"}, GammaExposure)
       /\ net_exposures.value.total_oi = KeptSum({"CALL", "PUT"}, PairOi)

\* a kept CALL row and a kept PUT row, both entering the sums
C1_Witness ==
    /\ NetReturned
    /\ \E p, q \in JoinedPairs :
          /\ KeptPair(p) /\ df_greeks.rows[p[1]].right = "CALL"
          /\ KeptPair(q) /\ df_greeks.rows[q[1]].right = "PUT"
    /\ net_exposures.value.net_gamma_calls > 0
    /\ net_exposures.value.net_gamma_puts > 0
    /\ net_exposures.value.net_delta # 0

\* C2: calculate_net_exposures returns the all-zero result whenever the Greeks table
\* or the open-interest table is empty or lacks a required column (strike, right,
\* delta, gamma, open_interest), an empty Greeks table with no columns included.
C2_AllZeroOnEmptyOrMissing ==
    (/\ net_exposures # NotCalled
     /\ \/ df_greeks.rows = <<>>
        \/ df_oi.rows = <<>>
        \/ ~(GreeksColumns \subseteq df_greeks.cols)
        \/ ~(OiColumns \subseteq df_oi.cols))
    => net_exposures = Returned(zero_metrics)

GexTable == gex_by_strike.value

GexNonEmpty == gex_by_strike.status = "returned" /\ gex_by_strike.value # EmptyTable

GexValues == {GexTable[i].gex : i \in 1..Len(GexTable)}

CallWalls == {i \in 1..Len(GexTable) : GexTable[i].is_call_wall}

PutWalls == {i \in 1..Len(GexTable) : GexTable[i].is_put_wall}

\* C3: in the table returned by calculate_gex_distribution exactly one strike is
\* flagged is_call_wall if the maximum per-strike gex is > 0 and none otherwise, and
\* the flagged strike attains the maximum; likewise is_put_wall and the minimum < 0;
\* no strike is flagged as both.
C3_SingleWalls ==
    GexNonEmpty =>
        /\ Cardinality(CallWalls) = IF SetMax(GexValues) > 0 THEN 1 ELSE 0
        /\ \A i \in CallWalls : GexTable[i].gex = SetMax(GexValues)
        /\ Cardinality(PutWalls) = IF SetMin(GexValues) < 0 THEN 1 ELSE 0
        /\ \A i \in PutWalls : GexTable[i].gex = SetMin(GexValues)
        /\ CallWalls \cap PutWalls = {}
        /\ Cardinality({GexTable[i].strike : i \in 1..Len(GexTable)}) = Len(GexTable)

\* two strikes tie for a positive maximum
C3_Witness ==
    /\ GexNonEmpty
    /\ Len(GexTable) = 2
    /\ GexTable[1].gex = GexTable[2].gex
    /\ GexTable[1].gex > 0
    /\ GexTable[1].is_call_wall

----------------------------------------------------------------------------
(* Claims on analyze_liquidity *)

LiquidityReturned == liquidity # NotCalled

HasStressIndex == "liquidity_stress_index" \in DOMAIN liquidity.value

\* the rows that analyze_liquidity keeps: spread percentage < 100
AllRowsDiscarded ==
    /\ df_price.rows # <<>>
    /\ HasQuoteColumns(df_price)
    /\ \A i \in 1..Len(df_price.rows) :
          ~FLess(SpreadPct(df_price, df_price.rows[i]), <<ArtifactSpreadPct, 1>>)

\* C11: for every price table the returned liquidity_stress_index satisfies
\* 0 <= liquidity_stress_index <= 100.
C11_StressIndexWithinBounds ==
    (LiquidityReturned /\ HasStressIndex) =>
        /\ ~FLess(liquidity.value.liquidity_stress_index, FZero)
        /\ ~FLess(<<StressCap, 1>>, liquidity.value.liquidity_stress_index)

\* C12: when the price table has zero rows, or every row is discarded because its
\* spread percentage is >= 100, the result carries liquidity_stress_index = 0.
C12_ZeroStressWithoutRows ==
    (LiquidityReturned /\ (df_price.rows = <<>> \/ AllRowsDiscarded)) =>
        (HasStressIndex /\ liquidity.value.liquidity_stress_index = FZero)

----------------------------------------------------------------------------
(* Claims on calculate_pc_ratios and on missing join keys *)

PcReturned == pc_ratios.status = "returned"

PriceVolume(right) ==
    SeqSum([i \in 1..Len(pc_df_price.rows) |->
               IF pc_df_price.rows[i].right = right THEN pc_df_price.rows[i].volume ELSE 0])

\* C13: for every non-empty price table and every Greeks and open-interest table
\* merged with it, pc_volume = (sum of volume over the PUT rows of the price table) /
\* max(sum of volume over its CALL rows, 1), each price row counted once.
C13_PcVolumeCountsEachPriceRowOnce ==
    (/\ PcReturned
     /\ pc_df_price.rows # <<>>
     /\ {"right", "volume"} \subseteq pc_df_price.cols)
    => /\ "pc_volume" \in DOMAIN pc_ratios.value
       /\ pc_ratios.value.pc_volume = Frac(PriceVolume("PUT"), Floor1(PriceVolume("CALL")))

\* C14: the result always carries exactly one of the three labels, BEARISH iff
\* pc_volume > 1.5, BULLISH iff pc_volume < 0.7 and NEUTRAL otherwise.
C14_SentimentFollowsPcVolume ==
    PcReturned =>
        /\ {"pc_volume", "sentiment"} \subseteq DOMAIN pc_ratios.value
        /\ pc_ratios.value.sentiment \in {"BEARISH", "BULLISH", "NEUTRAL"}
        /\ pc_ratios.value.sentiment = "BEARISH"
              <=> FLess(BearishAbove, pc_ratios.value.pc_volume)
        /\ pc_ratios.value.sentiment = "BULLISH"
              <=> FLess(pc_ratios.value.pc_volume, BullishBelow)

EmptyOrWithoutKeys(t) == t.rows = <<>> \/ ~(JoinKeys \subseteq t.cols)

\* C16: whenever the Greeks table or the open-interest table is empty or lacks the
\* strike or right column, calculate_gex_distribution returns an empty table and
\* calculate_pc_ratios (on a non-empty price table) a neutral dictionary, without
\* raising.
C16_NoRaiseOnMissingKeys ==
    (EmptyOrWithoutKeys(pc_df_greeks) \/ EmptyOrWithoutKeys(pc_df_oi)) =>
        /\ pc_gex # NotCalled => pc_gex = Returned(EmptyTable)
        /\ (pc_ratios # NotCalled /\ pc_df_price.rows # <<>>
                /\ JoinKeys \subseteq pc_df_price.cols)
              => (PcReturned /\ pc_ratios.value.sentiment = "NEUTRAL")

----------------------------------------------------------------------------
(* Claims on calculate_realized_volatility *)

HvReturned == df_hv.status = "returned"

PositiveCloses ==
    /\ "close" \in df_stock.cols
    /\ \A i \in 1..Len(df_stock.rows) : df_stock.rows[i].close > 0

\* rows in date order; a table without a date column is taken in row order
ChronologicallySorted ==
    "date" \in df_stock.cols =>
        \A i, j \in 1..Len(df_stock.rows) :
            i < j => df_stock.rows[i].date <= df_stock.rows[j].date

OneRowPerDate ==
    "date" \in df_stock.cols =>
        \A i, j \in 1..Len(df_stock.rows) :
            i < j => df_stock.rows[i].date # df_stock.rows[j].date

MaxOfWindows == SetMax(windows)

\* the output is the input rows at 0-based positions >= max(W), in order, each with
\* every window defined
RetainsFromMaxWindow ==
    LET n == Len(df_stock.rows)
        out == df_hv.value
        m == MaxOfWindows
    IN  /\ Len(out) = (IF n > m THEN n - m ELSE 0)
        /\ \A k \in 1..Len(out) :
              /\ out[k].close = df_stock.rows[m + k].close
              /\ "date" \in df_stock.cols => out[k].date = df_stock.rows[m + k].date
              /\ \A w \in windows : notna(out[k].hv[w])

\* C15 as stated: for a chronologically sorted series of n rows with positive closes
\* and window set W, the row at 0-based position i is retained iff i >= max(W); the
\* output has max(0, n - max(W)) rows and no retained row has an undefined window.
C15_RetainsRowsFromMaxWindow ==
    (HvReturned /\ PositiveCloses /\ ChronologicallySorted) => RetainsFromMaxWindow

\* C15 as amended: the same for a series with one row per date and windows of at
\* least 2.
C15_RetainsRowsFromMaxWindowOfTwoOrMore ==
    (/\ HvReturned /\ PositiveCloses /\ ChronologicallySorted /\ OneRowPerDate
     /\ \A w \in windows : w >= 2)
    => RetainsFromMaxWindow

\* four rows, windows {2, 3}: exactly the last row is retained
C15_Witness ==
    /\ HvReturned /\ PositiveCloses /\ ChronologicallySorted /\ OneRowPerDate
    /\ "date" \in df_stock.cols
    /\ windows = {2, 3}
    /\ Len(df_stock.rows) = 4
    /\ Len(df_hv.value) = 1
    /\ df_hv.value[1].date = df_stock.rows[4].date

----------------------------------------------------------------------------
(* Claims on missing columns and on the callers' tables *)

LacksTermColumn ==
    ~((QualityColumns \cup {"expiration", "right"}) \subseteq tc_greeks.cols)

\* C17: on a non-empty Greeks table with a dte column that lacks expiration, right,
\* iv_pct, delta, volume or bid, calculate_term_structure_metrics does not raise and
\* the buckets with rows in their window have undefined rr25 and iv_atm.
C17_NoRaiseOnMissingTermColumn ==
    (/\ tc_metrics # NotCalled
     /\ tc_greeks.rows # <<>>
     /\ "dte" \in tc_greeks.cols
     /\ LacksTermColumn)
    => /\ tc_metrics.status = "returned"
       /\ \A d \in TargetDtes :
             (\E i \in 1..Len(tc_greeks.rows) :
                 InWindow(tc_greeks.rows[i].dte, d, Tolerance(d)))
             => /\ tc_metrics.value.buckets[d].rr25 = NaN
                /\ tc_metrics.value.buckets[d].iv_atm = NaN

\* C18: every calculator leaves the tables passed by its caller unchanged, a Greeks
\* table with expiration and date columns but no dte column included.
C18_CallerTablesUnchanged == [][ts_greeks' = ts_greeks]_vars

----------------------------------------------------------------------------
(* Claims on normalize_columns *)

\* C19: normalize_columns is idempotent: applied to its own result it returns that
\* result, for tables whose largest strike exceeds 10,000,000, tables with an
\* implied_vol column and tables with P/C right codes included.
C19_NormalizeIdempotent ==
    twice # NotCalled => twice.value = once.value

MaxStrike(t) == SetMax({t.rows[i].strike : i \in 1..Len(t.rows)})

HasStrikes(t) == t.rows # <<>> /\ "strike" \in t.cols

\* every strike of the result is the strike of the input divided by 1000
AllDivided(in, out) ==
    /\ Len(out.rows) = Len(in.rows)
    /\ \A i \in 1..Len(in.rows) : out.rows[i].strike * MilliDivisor = in.rows[i].strike

SameStrikes(in, out) ==
    /\ Len(out.rows) = Len(in.rows)
    /\ \A i \in 1..Len(in.rows) : out.rows[i].strike = in.rows[i].strike

DividedIffAboveThreshold(in, out) ==
    HasStrikes(in) =>
        IF MaxStrike(in) > StrikeThreshold THEN AllDivided(in, out) ELSE SameStrikes(in, out)

\* C20: normalize_columns divides every strike of a table by 1000 when the largest
\* strike exceeds 10,000 and leaves every strike as it is otherwise, a largest strike
\* of exactly 10,000 included.
C20_StrikesDividedIffMaxAboveThreshold ==
    /\ once # NotCalled => DividedIffAboveThreshold(raw_table, once.value)
    /\ twice # NotCalled => DividedIffAboveThreshold(once.value, twice.value)

\* a table of two rows whose largest strike is above the threshold and whose other
\* strike is below it was divided throughout, and the result, whose largest strike is
\* exactly 10000, was left as it is by the second call
C20_Witness ==
    /\ twice # NotCalled
    /\ Len(raw_table.rows) = 2
    /\ "strike" \in raw_table.cols
    /\ raw_table.rows[1].strike = StrikeThreshold
    /\ raw_table.rows[2].strike = StrikeThreshold * MilliDivisor
    /\ once.value.rows[1].strike * MilliDivisor = StrikeThreshold
    /\ once.value.rows[2].strike = StrikeThreshold
    /\ twice.value = once.value

----------------------------------------------------------------------------
(* Claims on the feed's strikes and right codes *)

\* the rows of the response that fetch keeps
KeptByFetch ==
    SelectSeq(feed_csv.rows,
              LAMBDA r : "right" \in feed_csv.cols => UpperStrip(r.right) \in {"CALL", "PUT"})

\* C21: after fetch and a calculator's normalize_columns, the strike of every contract
\* delivered with milli-strike m is m/1000 price units, for every m.
C21_StrikeInPriceUnits ==
    feed_norm # NotCalled =>
        /\ Len(feed_norm.value.rows) = Len(KeptByFetch)
        /\ \A i \in 1..Len(KeptByFetch) :
              feed_norm.value.rows[i].strike * MilliDivisor = KeptByFetch[i].strike

\* C22: after normalize_columns every row's right value is CALL or PUT, for every
\* input value of the right column.
C22_RightIsCallOrPut ==
    (once # NotCalled /\ "right" \in once.value.cols) =>
        \A i \in 1..Len(once.value.rows) : once.value.rows[i].right \in {"CALL", "PUT"}

----------------------------------------------------------------------------
(* Claims on the master daily table *)

SavedDates == {saves[i].date : i \in 1..Len(saves)}

\* the record of the most recent save for date d
LastSaved(d) == saves[SetMax({i \in 1..Len(saves) : saves[i].date = d})]

AscendingByDate(rows) ==
    \A i, j \in 1..Len(rows) : i < j => rows[i].date < rows[j].date

\* C23: after any sequence of save_daily_metrics calls for one symbol the master table
\* holds exactly one record per date saved, the one of the most recent save for that
\* date, in ascending order of date; saving the same record twice in a row leaves the
\* table as after saving it once.
C23_OneRecordPerDateLatestWins ==
    saves # <<>> =>
        /\ master_file.exists
        /\ AscendingByDate(master_file.rows)
        /\ {master_file.rows[i].date : i \in 1..Len(master_file.rows)} = SavedDates
        /\ \A i \in 1..Len(master_file.rows) :
              master_file.rows[i] = LastSaved(master_file.rows[i].date)
        /\ (Len(saves) >= 2 /\ saves[Len(saves)] = saves[Len(saves) - 1])
              => master_file = master_before

\* a date saved, an earlier date saved after it, and the first date saved again with
\* another record: the table holds the earlier date first and the replacement second
C23_Witness ==
    /\ Len(saves) = 3
    /\ saves[2].date < saves[1].date
    /\ saves[3].date = saves[1].date
    /\ saves[3] # saves[1]
    /\ master_file.rows = <<saves[2], saves[3]>>

----------------------------------------------------------------------------
(* Claims on the price and term-structure histories *)

RowsOfDate(rows, d) == SelectSeq(rows, LAMBDA r : r.date = d)

\* C24: after a save with a row for a date that is already stored, the history holds
\* exactly one row for that date and it is the supplied row; after any sequence of
\* saves no date appears twice.
C24_UpsertByDate ==
    hist_saves # <<>> =>
        LET df == hist_saves[Len(hist_saves)] IN
        /\ \A k \in 1..Len(df) :
              RowsOfDate(hist_before.rows, df[k].date) # <<>>
                  => RowsOfDate(hist_file.rows, df[k].date) = <<df[k]>>
        /\ \A i, j \in 1..Len(hist_file.rows) :
              i # j => hist_file.rows[i].date # hist_file.rows[j].date

----------------------------------------------------------------------------
(* Claims relating the two exposure calculators and the open interest counted *)

RECURSIVE GexTotal(_)
GexTotal(t) == IF t = <<>> THEN 0 ELSE Head(t).gex + GexTotal(Tail(t))

\* C25: on the same Greeks table, open-interest table and spot price, the gex column
\* of calculate_gex_distribution sums to the net_gamma of calculate_net_exposures.
C25_GexSumsToNetGamma ==
    (/\ NetReturned
     /\ "net_gamma" \in DOMAIN net_exposures.value
     /\ gex_by_strike # NotCalled)
    => /\ gex_by_strike.status = "returned"
       /\ GexTotal(gex_by_strike.value) = net_exposures.value.net_gamma

RECURSIVE OiTotal(_)
OiTotal(rows) == IF rows = <<>> THEN 0 ELSE Head(rows).open_interest + OiTotal(Tail(rows))

\* C26: when several rows of the tables share a (strike, right) pair, as the rows of
\* several expirations do, total_oi does not exceed the open interest of the
\* open-interest table and no Greeks row enters the sums more than once.
C26_OpenInterestCountedOnce ==
    (/\ NetReturned
     /\ "total_oi" \in DOMAIN net_exposures.value
     /\ OiColumns \subseteq df_oi.cols)
    => /\ net_exposures.value.total_oi <= OiTotal(df_oi.rows)
       /\ \A p, q \in JoinedPairs : (KeptPair(p) /\ KeptPair(q) /\ p[1] = q[1]) => p = q

----------------------------------------------------------------------------
(* Claims on concurrent workers *)

\* C27: once two uncoordinated workers have returned, each from save_daily_metrics
\* with its own date or from update_state with its own symbol, the master table holds
\* the record of every save and the state file the entry of every update.
C27_NoLostUpdate ==
    (\A w \in Workers : w_proc[w].at = "done") =>
        \A w \in Workers :
            IF w_proc[w].task = "save_daily_metrics"
            THEN \E i \in 1..Len(w_master.rows) : w_master.rows[i] = WorkerRecord(w)
            ELSE WorkerSymbol(w) \in DOMAIN w_state.rows

----------------------------------------------------------------------------
(* Claims on the collection drivers *)

\* C28: the state of a symbol is last_date = d with status 'success' only if the
\* record saved for d contains a spot price, and a record without spot price never
\* replaces a stored record of the same date.
C28_SuccessOnlyWithSpotPrice ==
    /\ drv_state # <<>> =>
          \A i \in 1..Len(drv_master.rows) :
              drv_master.rows[i].date = drv_state.last_date
                  => notna(drv_master.rows[i].spot_price)
    /\ \A i \in 1..Len(drv_before.rows), j \in 1..Len(drv_master.rows) :
          (/\ drv_before.rows[i].date = drv_master.rows[j].date
           /\ ~notna(drv_master.rows[j].spot_price))
          => drv_master.rows[j] = drv_before.rows[i]

----------------------------------------------------------------------------
(* Claims on daily_collection_job *)

\* C29: in one run of daily_collection_job every symbol of settings.SYMBOLS is
\* attempted, also when collecting, saving or alerting raises for one of them: a run
\* that has ended has attempted every symbol.
C29_EverySymbolAttempted ==
    job_status \in {"completed", "failed"} =>
        \A sym \in JobSymbols : sym <= Len(job_log)

----------------------------------------------------------------------------
(* Claims on the S&P 500 backfill *)

\* C30: across runs of the backfill interrupted at arbitrary points, no symbol is
\* backfilled again once the progress file has it in completed_symbols, no symbol is
\* twice in completed_symbols, and a run that ends without being interrupted, after
\* taking up the symbols that an interrupted run left unrecorded, leaves the progress
\* file with every symbol of settings.SYMBOLS in completed_symbols.
C30_BackfillResumes ==
    /\ bf_redone = {}
    /\ bf_file.kind = "json" =>
          \A i, j \in 1..Len(bf_file.progress.completed_symbols) :
              i # j => bf_file.progress.completed_symbols[i]
                           # bf_file.progress.completed_symbols[j]
    /\ bf_pc \in {"finished", "crashed"} =>
          /\ bf_file.kind = "json"
          /\ Members(bf_file.progress.completed_symbols) = BackfillSymbols

====
